---- MODULE Spec2Model ----
(***************************************************************************)
(* Event pipeline of the copy-trading bot: the in-memory dedup cache       *)
(* (services/activityQueue.ts), the round-robin activity distributor       *)
(* (services/activityDistributor.ts), the polling monitor                  *)
(* (services/tradeMonitor.ts) and the executor worker                      *)
(* (workers/executorWorker.ts).                                            *)
(***************************************************************************)
EXTENDS Integers, Sequences, FiniteSets, TLC

(***************************************************************************)
(* Bounds of the model.                                                    *)
(***************************************************************************)
MaxNow == 4            \* the clock Date.now() runs over 0..MaxNow
MaxTtlArg == 2         \* constructor argument ttlMs ranges over 0..MaxTtlArg
MaxEntriesArg == 2     \* constructor argument maxEntries ranges over 0..MaxEntriesArg

\* A JavaScript string is modelled as the sequence of its characters, so that
\* concatenation, join and toLowerCase are computed and "" is <<>>.
\* Keys handed to checkAndRemember: arbitrary strings, the empty one included.
Keys == {<<>>, <<"a">>, <<"b">>}

NoTime == 0 - 1

MaxFetches == 3        \* the feed answers at most MaxFetches requests with more than nothing
MaxFed == 2            \* the feed returns at most MaxFed activities in all
MaxSeconds == 2        \* the pipeline's clock runs over MaxSeconds seconds
MaxWorkerMessages == 3 \* a worker is sent at most MaxWorkerMessages activities
MaxWorkerTicks == 2    \* a worker's clock makes at most MaxWorkerTicks steps

\* tradeMonitor.ts:107 tells seconds from milliseconds at 1e12.  TLC's integers
\* are 32 bits wide, so the model keeps the code's factor 1000 and scales the
\* threshold (and with it the epoch the clock starts at) down to 1e6.
MsThreshold == 1000000
MsPerSecond == 1000
Epoch == 2 * MsThreshold

\* activityQueue.ts:121, the capacity of the pipeline's dedup cache
DefaultMaxEntries == 5000

MaxEnqueues == 3       \* at most MaxEnqueues calls of enqueue
MaxDequeues == 3       \* at most MaxDequeues calls of dequeue
MaxPolls == 5          \* the executor's loop makes at most MaxPolls iterations
MaxRegistry == 2       \* the registry holds at most MaxRegistry entries
MaxDistCalls == 4      \* at most MaxDistCalls calls of publish and broadcastShutdown

\* The workers: worker w is registered as registerWorkerEndpoint(w, endpoint of w),
\* so an endpoint is named by its worker's id.
WorkerIds == {1, 2}
Endpoints == WorkerIds

VARIABLES
    \* InMemoryDedupCache
    cache,          \* Map<string, number> in insertion order: Seq of [key, timestamp]
    ttlMs,          \* readonly ttlMs
    maxEntries,     \* readonly maxEntries
    now,            \* Date.now()
    \* history of the calls made on the cache
    lastOp,         \* the last call: [op, key, result, at, prevTrueAt, between]
    lastTrue,       \* key -> time of the latest call that returned true, or NoTime
    admittedSince,  \* key -> number of other keys admitted since that call (saturating)
    \* AsyncActivityQueue
    aqQueue,        \* private queue: T[]
    aqWaiters,      \* private waiters: the settle functions, each named by its dequeue call
    aqClosed,       \* private closed
    aqCalls,        \* the dequeue calls so far: [settled, result, timer, listening]
    \* history of the queue
    aqEnqueues,     \* number of enqueue calls so far; the n-th call enqueues item n
    aqAccepted,     \* the items enqueued while the queue was open
    aqReturned,     \* the items dequeue calls have returned, in the order they returned
    \* tradeExecutor
    executorDocs,       \* the activity collection: id -> [present, bot, botExcutedTime]
    executorBuffer,     \* tradeExecutor.ts tradeAggregationBuffer, in insertion order
    executorIsRunning,  \* tradeExecutor.ts isRunning
    executorNow,        \* Date.now() of the executor's process
    \* history of the executor
    executorOrders,     \* the calls of postOrder the executor has made
    executorPolls,      \* number of iterations of its loop so far
    \* activityDistributor
    workerPorts,    \* WorkerPort[]: Seq of [id, endpoint]
    roundRobinIndex,
    backlog,        \* QueueActivity[]
    sent,           \* endpoint -> the messages posted to it, in order
    \* history of the distributor
    published,      \* number of publishActivityToWorkers calls so far
    slotSent,       \* per registry entry: activities sent to it since the registry last changed
    epochPublished, \* number of publish calls since the registry last changed
    drained,        \* number of activities taken out of the backlog so far
    shutdowns,      \* number of broadcastShutdown calls so far
    \* tradeMonitor
    monitorIsRunning,   \* let isRunning
    monitorPc,          \* where tradeMonitor() stands: "loop", "fetch", "positions",
                        \* "sleep", "stopped"
    addressIndex,       \* the address fetchTradeData's loop is at (1-based)
    cycleCount,         \* let cycleCount
    tooOldSeconds,      \* ENV.TOO_OLD_SECONDS
    feed,               \* the activities the feed may return
    outcomes,           \* what became of each activity of the last feed response
    fetches,            \* number of feed requests answered so far
    fetchError,         \* the last step of the monitor ended in fetchTradeData's catch
    fed,                \* number of activities the feed has returned so far
    publishLog,         \* every publish of the monitor: key, cycle, response, position, pubId
    \* executorWorker
    tradeAggregationEnabled,    \* ENV.TRADE_AGGREGATION_ENABLED
    isRunning,
    aggregationTimer,           \* "null" or "armed"
    aggregationFlushInProgress,
    tradeAggregationBuffer,     \* Map<string, AggregatedTrade> in insertion order
    localQueue,
    startPc,            \* start(): "createClobClient", "started", or "exited"
    loopPc,             \* dequeueLoop: "notStarted", "sleeping", "trading", "exited"
    inFlight,           \* the activity doTrading is working on, if any
    flushing,           \* the records doAggregatedTrading has still to go through
    paperTradingEnabled,        \* ENV.PAPER_TRADING_ENABLED
    paperTrader,        \* the PaperTrader: [balance, positions]
    \* history of the worker
    orders,             \* the calls of postOrder made so far
    paperLog,           \* the calls of paperTrader.executeTrade made so far
    removed,            \* the records getReadyAggregatedTrades has deleted so far
    shutdownSeen,       \* a shutdown message has been handled
    received,           \* number of activity messages handled so far
    workerFeed,         \* the payloads the worker may be sent
    messageBudget,      \* the number of activity messages it may be sent
    tickBudget          \* the number of steps the worker's clock may make

dedupVars == <<cache, ttlMs, maxEntries, now, lastOp, lastTrue, admittedSince>>

distVars == <<workerPorts, roundRobinIndex, backlog, sent, published, slotSent,
              epochPublished, drained, shutdowns>>

queueVars == <<aqQueue, aqWaiters, aqClosed, aqCalls, aqEnqueues, aqAccepted,
               aqReturned>>

executorVars == <<executorDocs, executorBuffer, executorIsRunning, executorNow,
                  executorOrders, executorPolls>>

\* what the monitor is started with, and the exported activityQueue and the
\* database-polling executor, which nothing in the worker pipeline calls
monitorEnv == <<tooOldSeconds, feed, queueVars, executorVars>>

monitorVars == <<monitorIsRunning, monitorPc, addressIndex, cycleCount, monitorEnv,
                 outcomes, fetches, fed, publishLog, fetchError>>

workerVars == <<tradeAggregationEnabled, isRunning, aggregationTimer,
                aggregationFlushInProgress, tradeAggregationBuffer, localQueue, startPc,
                loopPc, inFlight, flushing, orders, shutdownSeen, received,
                paperTradingEnabled, paperTrader, paperLog, removed, workerFeed,
                messageBudget, tickBudget>>

vars == <<cache, ttlMs, maxEntries, now, lastOp, lastTrue, admittedSince,
          aqQueue, aqWaiters, aqClosed, aqCalls, aqEnqueues, aqAccepted, aqReturned,
          executorDocs, executorBuffer, executorIsRunning, executorNow,
          executorOrders, executorPolls,
          workerPorts, roundRobinIndex, backlog, sent, published, slotSent,
          epochPublished, drained, shutdowns,
          monitorIsRunning, monitorPc, addressIndex, cycleCount, tooOldSeconds, feed,
          outcomes, fetches, fed, publishLog, fetchError,
          tradeAggregationEnabled, isRunning, aggregationTimer,
          aggregationFlushInProgress, tradeAggregationBuffer, localQueue, startPc,
          loopPc, inFlight, flushing, orders, shutdownSeen, received,
          paperTradingEnabled, paperTrader, paperLog, removed, workerFeed,
          messageBudget, tickBudget>>

Max(a, b) == IF a >= b THEN a ELSE b
Min(a, b) == IF a <= b THEN a ELSE b

(***************************************************************************)
(* InMemoryDedupCache                                                      *)
(***************************************************************************)

\* JavaScript truthiness of a string: `if (oldestKey)` is false for "".
Truthy(k) == k # <<>>

IsExpiredInclusive(t, timestamp) == t - timestamp >= ttlMs

\* evictExpired's test: now - timestamp > this.ttlMs
IsExpired(t, timestamp) == t - timestamp > ttlMs

EvictExpiredNoop(c, t) == c

\* evictExpired(now): delete every entry whose age exceeds the TTL
EvictExpired(c, t) == SelectSeq(c, LAMBDA e : ~IsExpired(t, e.timestamp))

\* this.cache.has(key)
Has(c, k) == \E i \in 1..Len(c) : c[i].key = k

\* lines 25-28: if size > maxEntries, delete the first key of the Map, but only
\* when that key is truthy
EvictOldest(c) ==
    IF Len(c) > maxEntries
    THEN IF Truthy(c[1].key) THEN Tail(c) ELSE c
    ELSE c

RefreshEntry(c, k, t) ==
    [i \in 1..Len(c) |-> IF c[i].key = k THEN [key |-> k, timestamp |-> t] ELSE c[i]]

CheckAndRememberCacheRefreshing(c, k, t) ==
    LET swept == EvictExpired(c, t)
    IN  IF Has(swept, k) THEN RefreshEntry(swept, k, t)
        ELSE EvictOldest(Append(swept, [key |-> k, timestamp |-> t]))

\* the cache after checkAndRemember(key) at time t
CheckAndRememberCache(c, k, t) ==
    LET swept == EvictExpired(c, t)
    IN  IF Has(swept, k) THEN swept
        ELSE EvictOldest(Append(swept, [key |-> k, timestamp |-> t]))

\* the value checkAndRemember(key) returns at time t
CheckAndRememberResult(c, k, t) == ~Has(EvictExpired(c, t), k)

\* new AsyncActivityQueue()
InitQueue ==
    /\ aqQueue = <<>>
    /\ aqWaiters = <<>>
    /\ aqClosed = FALSE
    /\ aqCalls = <<>>
    /\ aqEnqueues = 0
    /\ aqAccepted = {}
    /\ aqReturned = <<>>

\* the module's exports: activityQueue and a dedup cache
InitDedupWith(ttlArg, maxArg, start) ==
    /\ InitQueue
    /\ cache = <<>>
    /\ ttlMs = Max(ttlArg, 1)
    /\ maxEntries = Max(maxArg, 1)
    /\ now = start
    /\ lastOp = [op |-> "none", key |-> <<>>, result |-> FALSE, count |-> 0,
                 prevTrueAt |-> NoTime, between |-> 0]
    /\ lastTrue = [k \in Keys |-> NoTime]
    /\ admittedSince = [k \in Keys |-> 0]

(***************************************************************************)
(* AsyncActivityQueue                                                      *)
(***************************************************************************)

\* null, and the result of a dequeue call that has not resolved
Null == 0
Pending == -1

\* options.timeoutMs as a caller may give it: no timer, or the default
DequeueTimeouts == {0, 1000}

\* settle(value) of dequeue call c: the first call resolves the promise and
\* runs cleanup(), later calls do nothing
Settle(calls, c, value) ==
    IF calls[c].settled THEN calls
    ELSE [calls EXCEPT ![c] = [settled |-> TRUE, result |-> value, timer |-> FALSE,
                               listening |-> FALSE]]

\* the items returned so far, after settle(value) of call c
ReturnedAfter(calls, c, value) ==
    IF calls[c].settled \/ value = Null THEN aqReturned
    ELSE Append(aqReturned, value)

\* enqueue(item), item being the number of the call
Enqueue ==
    /\ aqEnqueues < MaxEnqueues
    /\ aqEnqueues' = aqEnqueues + 1
    /\ LET item == aqEnqueues + 1
       IN  IF aqClosed
           THEN UNCHANGED <<aqQueue, aqWaiters, aqCalls, aqAccepted, aqReturned>>
           ELSE /\ aqAccepted' = aqAccepted \cup {item}
                /\ IF Len(aqWaiters) > 0
                   THEN /\ aqWaiters' = Tail(aqWaiters)
                        /\ aqCalls' = Settle(aqCalls, Head(aqWaiters), item)
                        /\ aqReturned' = ReturnedAfter(aqCalls, Head(aqWaiters), item)
                        /\ UNCHANGED aqQueue
                   ELSE /\ aqQueue' = Append(aqQueue, item)
                        /\ UNCHANGED <<aqWaiters, aqCalls, aqReturned>>
    /\ UNCHANGED aqClosed

\* dequeue({ timeoutMs, signal }) up to its return or its await
Dequeue(timeoutMs, signal) ==
    /\ Len(aqCalls) < MaxDequeues
    /\ IF Len(aqQueue) > 0
       THEN /\ aqQueue' = Tail(aqQueue)
            /\ aqCalls' = Append(aqCalls, [settled |-> TRUE, result |-> Head(aqQueue),
                                           timer |-> FALSE, listening |-> FALSE])
            /\ aqReturned' = Append(aqReturned, Head(aqQueue))
            /\ UNCHANGED aqWaiters
       ELSE IF aqClosed
       THEN /\ aqCalls' = Append(aqCalls, [settled |-> TRUE, result |-> Null,
                                           timer |-> FALSE, listening |-> FALSE])
            /\ UNCHANGED <<aqQueue, aqWaiters, aqReturned>>
       ELSE /\ aqCalls' = Append(aqCalls, [settled |-> FALSE, result |-> Pending,
                                           timer |-> timeoutMs > 0,
                                           listening |-> signal])
            /\ aqWaiters' = Append(aqWaiters, Len(aqCalls) + 1)
            /\ UNCHANGED <<aqQueue, aqReturned>>
    /\ UNCHANGED <<aqClosed, aqEnqueues, aqAccepted>>

\* the timer of dequeue call c fires: settle(null)
DequeueTimeout(c) ==
    /\ aqCalls[c].timer
    /\ aqCalls' = Settle(aqCalls, c, Null)
    /\ UNCHANGED <<aqQueue, aqWaiters, aqClosed, aqEnqueues, aqAccepted, aqReturned>>

\* the signal of dequeue call c aborts: onAbort, settle(null)
DequeueAbort(c) ==
    /\ aqCalls[c].listening
    /\ aqCalls' = Settle(aqCalls, c, Null)
    /\ UNCHANGED <<aqQueue, aqWaiters, aqClosed, aqEnqueues, aqAccepted, aqReturned>>

\* the calls after resolve(null) of every waiter in turn
RECURSIVE ResolveAll(_, _)
ResolveAll(calls, waiters) ==
    IF Len(waiters) = 0 THEN calls
    ELSE ResolveAll(Settle(calls, Head(waiters), Null), Tail(waiters))

\* a close that sets the flag and leaves the waiters waiting
CloseFlagOnly ==
    /\ aqClosed' = TRUE
    /\ UNCHANGED <<aqQueue, aqWaiters, aqCalls, aqEnqueues, aqAccepted, aqReturned>>

\* close()
Close ==
    /\ aqClosed' = TRUE
    /\ aqCalls' = ResolveAll(aqCalls, aqWaiters)
    /\ aqWaiters' = <<>>
    /\ UNCHANGED <<aqQueue, aqEnqueues, aqAccepted, aqReturned>>

othersOfQueue == <<dedupVars, distVars, workerVars, monitorIsRunning, monitorPc,
                   addressIndex, cycleCount, tooOldSeconds, feed, outcomes, fetches,
                   fed, publishLog, fetchError, executorVars>>

EnqueueStep == Enqueue /\ UNCHANGED othersOfQueue

DequeueStep ==
    /\ \E timeoutMs \in DequeueTimeouts, signal \in BOOLEAN : Dequeue(timeoutMs, signal)
    /\ UNCHANGED othersOfQueue

DequeueTimeoutStep ==
    /\ \E c \in 1..Len(aqCalls) : DequeueTimeout(c)
    /\ UNCHANGED othersOfQueue

DequeueAbortStep ==
    /\ \E c \in 1..Len(aqCalls) : DequeueAbort(c)
    /\ UNCHANGED othersOfQueue

CloseStep == Close /\ UNCHANGED othersOfQueue

\* enqueue, dequeue, its timeouts and aborts, and close in any interleaving
NextQueue ==
    \/ EnqueueStep
    \/ DequeueStep
    \/ DequeueTimeoutStep
    \/ DequeueAbortStep
    \/ CloseStep

(***************************************************************************)
(* activityDistributor                                                     *)
(***************************************************************************)

\* The distributor's state as one value, so that a caller's loop can thread it
\* through several calls.
DistState ==
    [workerPorts |-> workerPorts, roundRobinIndex |-> roundRobinIndex,
     backlog |-> backlog, sent |-> sent, published |-> published,
     slotSent |-> slotSent, epochPublished |-> epochPublished, drained |-> drained]

SetDist(d) ==
    /\ workerPorts' = d.workerPorts
    /\ roundRobinIndex' = d.roundRobinIndex
    /\ backlog' = d.backlog
    /\ sent' = d.sent
    /\ published' = d.published
    /\ slotSent' = d.slotSent
    /\ epochPublished' = d.epochPublished
    /\ drained' = d.drained

ActivityMsg(a) == [type |-> "activity", payload |-> a]
ShutdownMsg == [type |-> "shutdown"]

\* a channel that hands the newest message over first
SendNewestFirst(d, endpoint, message) ==
    [d EXCEPT !.sent[endpoint] = <<message>> \o @]

\* send(endpoint, message): MessagePort and Worker both have postMessage
Send(d, endpoint, message) ==
    [d EXCEPT !.sent[endpoint] = Append(@, message)]

PickWorkerStuck(d) ==
    IF Len(d.workerPorts) = 0 THEN [slot |-> 0, d |-> d]
    ELSE LET slot == (d.roundRobinIndex % Len(d.workerPorts)) + 1
         IN  [slot |-> slot, d |-> [d EXCEPT !.slotSent[slot] = @ + 1]]

\* a pickWorker that advances the index before it selects
PickWorkerAdvancesFirst(d) ==
    IF Len(d.workerPorts) = 0 THEN [slot |-> 0, d |-> d]
    ELSE LET slot == ((d.roundRobinIndex + 1) % Len(d.workerPorts)) + 1
         IN  [slot |-> slot,
              d |-> [d EXCEPT !.roundRobinIndex =
                                  (d.roundRobinIndex + 1) % Len(d.workerPorts),
                              !.slotSent[slot] = @ + 1]]

\* pickWorker(): slot 0 stands for null
PickWorker(d) ==
    IF Len(d.workerPorts) = 0 THEN [slot |-> 0, d |-> d]
    ELSE LET slot == (d.roundRobinIndex % Len(d.workerPorts)) + 1
         IN  [slot |-> slot,
              d |-> [d EXCEPT !.roundRobinIndex =
                                  (d.roundRobinIndex + 1) % Len(d.workerPorts),
                              !.slotSent[slot] = @ + 1]]

FlushBacklogLifo(d) ==
    IF Len(d.backlog) = 0 \/ Len(d.workerPorts) = 0 THEN d
    ELSE LET RECURSIVE Drain(_)
             Drain(x) ==
                 IF Len(x.backlog) > 0 /\ Len(x.workerPorts) > 0
                 THEN LET activity == x.backlog[Len(x.backlog)]
                          rest == [x EXCEPT !.backlog = SubSeq(@, 1, Len(@) - 1),
                                            !.drained = @ + 1]
                          pick == PickWorker(rest)
                      IN  Drain(Send(pick.d, pick.d.workerPorts[pick.slot].endpoint,
                                     ActivityMsg(activity)))
                 ELSE x
         IN  Drain(d)

\* a flush that sends the oldest activity of the backlog and stops
FlushBacklogOnce(d) ==
    IF Len(d.backlog) = 0 \/ Len(d.workerPorts) = 0 THEN d
    ELSE LET rest == [d EXCEPT !.backlog = Tail(@), !.drained = @ + 1]
             pick == PickWorker(rest)
         IN  Send(pick.d, pick.d.workerPorts[pick.slot].endpoint,
                  ActivityMsg(Head(d.backlog)))

\* flushBacklog()
FlushBacklog(d) ==
    IF Len(d.backlog) = 0 THEN d
    ELSE LET RECURSIVE Drain(_)
             Drain(x) ==
                 IF Len(x.backlog) > 0 /\ Len(x.workerPorts) > 0
                 THEN LET activity == Head(x.backlog)
                          rest == [x EXCEPT !.backlog = Tail(@), !.drained = @ + 1]
                          pick == PickWorker(rest)
                      IN  IF pick.slot # 0
                          THEN Drain(Send(pick.d, pick.d.workerPorts[pick.slot].endpoint,
                                          ActivityMsg(activity)))
                          ELSE Drain(pick.d)
                 ELSE x
         IN  Drain(d)

PublishToAllWorkers(d, activity) ==
    LET a == [activity EXCEPT !.pubId = d.published + 1]
        n == [d EXCEPT !.published = @ + 1, !.epochPublished = @ + 1]
        pick == PickWorker(n)
        RECURSIVE SendAll(_, _)
        SendAll(x, i) ==
            IF i > Len(x.workerPorts) THEN x
            ELSE SendAll(Send(x, x.workerPorts[i].endpoint, ActivityMsg(a)), i + 1)
    IN  IF pick.slot = 0 THEN [n EXCEPT !.backlog = Append(@, a)]
        ELSE SendAll(pick.d, 1)

\* publishActivityToWorkers(activity); the activity is numbered by the order of
\* the publish calls (pubId) so that each publish can be told apart
PublishActivityToWorkers(d, activity) ==
    LET a == [activity EXCEPT !.pubId = d.published + 1]
        n == [d EXCEPT !.published = @ + 1, !.epochPublished = @ + 1]
        pick == PickWorker(n)
    IN  IF pick.slot = 0 THEN [n EXCEPT !.backlog = Append(@, a)]
        ELSE Send(pick.d, pick.d.workerPorts[pick.slot].endpoint, ActivityMsg(a))

\* the registry changed: the per-entry counts start again
ZeroSlots(d) ==
    [d EXCEPT !.slotSent = [i \in 1..Len(d.workerPorts) |-> 0], !.epochPublished = 0]

\* registerWorkerEndpoint(id, endpoint)
RegisterWorkerEndpoint(d, id, endpoint) ==
    LET pushed == [d EXCEPT !.workerPorts = Append(@, [id |-> id, endpoint |-> endpoint]),
                            !.slotSent = Append(@, 0)]
    IN  ZeroSlots(FlushBacklog(pushed))

\* workerPorts.findIndex((w) => w.id === id), 0 standing for -1
FindIndex(wp, id) ==
    IF \E i \in 1..Len(wp) : wp[i].id = id
    THEN CHOOSE i \in 1..Len(wp) : wp[i].id = id /\ \A j \in 1..(i - 1) : wp[j].id # id
    ELSE 0

\* splice(idx, 1)
RemoveAt(q, idx) == SubSeq(q, 1, idx - 1) \o SubSeq(q, idx + 1, Len(q))

\* unregisterWorkerEndpoint(id)
UnregisterWorkerEndpoint(d, id) ==
    LET idx == FindIndex(d.workerPorts, id)
    IN  IF idx >= 1
        THEN ZeroSlots([d EXCEPT !.workerPorts = RemoveAt(@, idx),
                                 !.slotSent = RemoveAt(@, idx)])
        ELSE d

\* a broadcast that takes the workers it has told to stop out of the registry
BroadcastShutdownUnregisters(d) ==
    LET RECURSIVE Each(_, _)
        Each(x, i) ==
            IF i > Len(x.workerPorts) THEN x
            ELSE Each(Send(x, x.workerPorts[i].endpoint, ShutdownMsg), i + 1)
    IN  ZeroSlots([Each(d, 1) EXCEPT !.workerPorts = <<>>])

\* broadcastShutdown()
BroadcastShutdown(d) ==
    LET RECURSIVE Each(_, _)
        Each(x, i) ==
            IF i > Len(x.workerPorts) THEN x
            ELSE Each(Send(x, x.workerPorts[i].endpoint, ShutdownMsg), i + 1)
    IN  Each(d, 1)

\* an activity as the distributor's callers hand it over
DistActivities ==
    {[transactionHash |-> h, pubId |-> 0] : h \in {"0x01"}}

InitDist ==
    /\ workerPorts = <<>>
    /\ roundRobinIndex = 0
    /\ backlog = <<>>
    /\ sent = [e \in Endpoints |-> <<>>]
    /\ published = 0
    /\ slotSent = <<>>
    /\ epochPublished = 0
    /\ drained = 0
    /\ shutdowns = 0

Register(id, endpoint) ==
    /\ Len(workerPorts) < MaxRegistry
    /\ SetDist(RegisterWorkerEndpoint(DistState, id, endpoint))
    /\ UNCHANGED shutdowns

Unregister(id) ==
    /\ SetDist(UnregisterWorkerEndpoint(DistState, id))
    /\ UNCHANGED shutdowns

Publish(activity) ==
    /\ published + shutdowns < MaxDistCalls
    /\ SetDist(PublishActivityToWorkers(DistState, activity))
    /\ UNCHANGED shutdowns

Shutdown ==
    /\ published + shutdowns < MaxDistCalls
    /\ SetDist(BroadcastShutdown(DistState))
    /\ shutdowns' = shutdowns + 1

RegisterStep ==
    /\ \E w \in WorkerIds : Register(w, w)
    /\ UNCHANGED <<dedupVars, monitorVars, workerVars>>

UnregisterStep ==
    /\ \E id \in WorkerIds : Unregister(id)
    /\ UNCHANGED <<dedupVars, monitorVars, workerVars>>

PublishStep ==
    /\ \E activity \in DistActivities : Publish(activity)
    /\ UNCHANGED <<dedupVars, monitorVars, workerVars>>

ShutdownStep ==
    /\ Shutdown
    /\ UNCHANGED <<dedupVars, monitorVars, workerVars>>

\* register, unregister and publish in any interleaving
NextDist ==
    \/ RegisterStep
    \/ UnregisterStep
    \/ PublishStep

\* the same with broadcastShutdown
NextDistAll ==
    \/ RegisterStep
    \/ UnregisterStep
    \/ PublishStep
    \/ ShutdownStep

(***************************************************************************)
(* buildActivityDedupKey and tradeMonitor                                  *)
(***************************************************************************)

UpperCase == <<"A", "B", "C", "D", "E", "F", "X">>
LowerCase == <<"a", "b", "c", "d", "e", "f", "x">>

\* String.prototype.toLowerCase, character by character
LowerChar(ch) ==
    IF \E i \in 1..Len(UpperCase) : UpperCase[i] = ch
    THEN LowerCase[CHOOSE i \in 1..Len(UpperCase) : UpperCase[i] = ch]
    ELSE ch

ToLowerCase(str) == [i \in 1..Len(str) |-> LowerChar(str[i])]

Digits == <<"0", "1", "2", "3", "4", "5", "6", "7", "8", "9">>

\* String(n) of a non-negative whole number
RECURSIVE NumStr(_)
NumStr(n) ==
    IF n < 10 THEN <<Digits[n + 1]>>
    ELSE NumStr(n \div 10) \o <<Digits[(n % 10) + 1]>>

\* a join that puts nothing between the parts
RECURSIVE JoinNoSeparator(_)
JoinNoSeparator(parts) ==
    IF Len(parts) = 0 THEN <<>>
    ELSE parts[1] \o JoinNoSeparator(Tail(parts))

\* Array.prototype.join(':')
RECURSIVE Join(_)
Join(parts) ==
    IF Len(parts) = 0 THEN <<>>
    ELSE IF Len(parts) = 1 THEN parts[1]
    ELSE parts[1] \o <<":">> \o Join(Tail(parts))

\* buildActivityDedupKey(activity); amounts and prices are whole hundredths
BuildActivityDedupKey(activity) ==
    IF Truthy(activity.transactionHash)
    THEN ToLowerCase(activity.transactionHash)
    ELSE Join(<<activity.userAddress, activity.conditionId, NumStr(activity.timestamp),
                activity.side, NumStr(activity.usdcSize), NumStr(activity.price)>>)

\* ENV.USER_ADDRESSES
USER_ADDRESSES == << <<"u", "1">>, <<"u", "2">> >>

\* ENV.TOO_OLD_SECONDS and ENV.DEDUP_CACHE_TTL_SECONDS as the operator may set them
TooOldSecondsChoices == {2}
DedupTtlSecondsChoices == {0, 4}

BUY == <<"B", "U", "Y">>
SELL == <<"S", "E", "L", "L">>

\* What the activity feed may return: a timestamp is a number (seconds or
\* milliseconds), a string (with the value Date.parse gives it, or unparseable)
\* or missing.
FeedActivities ==
    { [transactionHash |-> <<"0", "x", "A", "B">>,
       timestamp |-> [kind |-> "number", valid |-> TRUE, v |-> Epoch \div MsPerSecond],
       conditionId |-> <<"c", "1">>, asset |-> <<"a", "1">>, side |-> BUY,
       usdcSize |-> 50, price |-> 50, size |-> 100],
      [transactionHash |-> <<>>,
       timestamp |-> [kind |-> "number", valid |-> TRUE, v |-> Epoch + MsPerSecond],
       conditionId |-> <<"c", "2">>, asset |-> <<"a", "2">>, side |-> SELL,
       usdcSize |-> 150, price |-> 60, size |-> 250],
      [transactionHash |-> <<"0", "x", "c", "d">>,
       timestamp |-> [kind |-> "string", valid |-> FALSE, v |-> 0],
       conditionId |-> <<"c", "2">>, asset |-> <<"a", "2">>, side |-> SELL,
       usdcSize |-> 150, price |-> 60, size |-> 250] }

\* an activity the feed reports without a transactionHash
NoHashActivity(market, seconds, side, usdcSize, price) ==
    [transactionHash |-> <<>>,
     timestamp |-> [kind |-> "number", valid |-> TRUE,
                    v |-> Epoch \div MsPerSecond + seconds],
     conditionId |-> <<"c", market>>, asset |-> <<"a", market>>, side |-> side,
     usdcSize |-> usdcSize, price |-> price, size |-> 10]

\* an activity without a transactionHash, and activities that differ from it
\* in one component or in two
FirstNoHashActivity == NoHashActivity("1", 0, BUY, 1, 50)

NoHashActivities ==
    { FirstNoHashActivity,
      NoHashActivity("2", 0, BUY, 1, 50),
      NoHashActivity("1", 1, BUY, 1, 50),
      NoHashActivity("1", 0, SELL, 1, 50),
      NoHashActivity("1", 0, BUY, 15, 50),
      NoHashActivity("1", 0, BUY, 15, 0),
      NoHashActivity("1", 0, BUY, 1, 60) }

\* an activity with a given timestamp
TimestampActivity(timestamp) ==
    [transactionHash |-> <<"0", "x", "A", "B">>, timestamp |-> timestamp,
     conditionId |-> <<"c", "1">>, asset |-> <<"a", "1">>, side |-> BUY,
     usdcSize |-> 50, price |-> 50, size |-> 100]

\* timestamps on both sides of the threshold of line 107, the number 0, a
\* string that Date.parse reads as 0 or as the present, a string it cannot
\* read, and no timestamp at all
ThresholdTimestamps ==
    { [kind |-> "number", valid |-> TRUE, v |-> MsThreshold],
      [kind |-> "number", valid |-> TRUE, v |-> MsThreshold + 1],
      [kind |-> "number", valid |-> TRUE, v |-> 0],
      [kind |-> "string", valid |-> TRUE, v |-> 0],
      [kind |-> "string", valid |-> TRUE, v |-> Epoch],
      [kind |-> "string", valid |-> FALSE, v |-> 0],
      [kind |-> "missing", valid |-> FALSE, v |-> 0] }

\* timestamps in milliseconds whose age, when the monitor starts, is
\* TOO_OLD_SECONDS less a millisecond, TOO_OLD_SECONDS exactly, and a
\* millisecond more
AgeTimestamps(tooOld) ==
    { [kind |-> "number", valid |-> TRUE, v |-> Epoch - tooOld * MsPerSecond + d] :
          d \in {-1, 0, 1} }

\* a TOO_OLD_SECONDS under which no timestamp after 1970 is too old
TooOldNever == 2 * (Epoch \div MsPerSecond)

\* the arrays the feed may answer with
FeedResponses ==
    UNION {[1..n -> feed] : n \in 0..MaxFed}

\* a normalisation that takes the threshold itself for milliseconds
NormaliseTimestampInclusive(timestamp) ==
    IF timestamp.kind = "number"
    THEN IF timestamp.v >= MsThreshold THEN timestamp.v ELSE timestamp.v * MsPerSecond
    ELSE IF timestamp.kind = "string"
         THEN IF timestamp.valid THEN timestamp.v ELSE 0
         ELSE 0

\* lines 104-111: the activity's timestamp in milliseconds, 0 when unknown
NormaliseTimestamp(timestamp) ==
    IF timestamp.kind = "number"
    THEN IF timestamp.v > MsThreshold THEN timestamp.v ELSE timestamp.v * MsPerSecond
    ELSE IF timestamp.kind = "string"
         THEN IF timestamp.valid THEN timestamp.v ELSE 0
         ELSE 0

\* an age test that also drops the activity whose age is the threshold
IsTooOldInclusive(nowMs, activityMs) ==
    activityMs = 0 \/ nowMs - activityMs >= tooOldSeconds * MsPerSecond

\* lines 112-113: if (activityMs === 0 || nowMs - activityMs > tooOldMs) continue
IsTooOld(nowMs, activityMs) ==
    activityMs = 0 \/ nowMs - activityMs > tooOldSeconds * MsPerSecond

\* lines 119-124: { ...activity, timestamp: activityMs, userAddress: address };
\* _detectedAt, which only feeds the latency log lines, is left out
QueueActivity(activity, activityMs, address) ==
    [transactionHash |-> activity.transactionHash, timestamp |-> activityMs,
     userAddress |-> address, conditionId |-> activity.conditionId,
     asset |-> activity.asset, side |-> activity.side,
     usdcSize |-> activity.usdcSize, price |-> activity.price, size |-> activity.size,
     pubId |-> 0]

\* the loop over one feed response, were a duplicate published all the same
RECURSIVE ProcessActivitiesRepublishing(_, _, _, _)
ProcessActivitiesRepublishing(activities, address, i, st) ==
    IF i > Len(activities) THEN st
    ELSE LET activity == activities[i]
             activityMs == NormaliseTimestamp(activity.timestamp)
         IN  IF IsTooOld(now, activityMs)
             THEN ProcessActivitiesRepublishing(activities, address, i + 1,
                      [st EXCEPT !.outcomes = Append(@, "tooOld")])
             ELSE LET queueActivity == QueueActivity(activity, activityMs, address)
                      dedupKey == BuildActivityDedupKey(queueActivity)
                      isNew == CheckAndRememberResult(st.cache, dedupKey, now)
                      remembered == CheckAndRememberCache(st.cache, dedupKey, now)
                  IN  ProcessActivitiesRepublishing(activities, address, i + 1,
                          [st EXCEPT !.cache = remembered,
                                     !.d = PublishActivityToWorkers(@, queueActivity),
                                     !.outcomes =
                                         Append(@, IF isNew THEN "published"
                                                   ELSE "duplicate"),
                                     !.publishLog =
                                         IF isNew
                                         THEN Append(@, [key |-> dedupKey,
                                                         cycle |-> cycleCount,
                                                         fetch |-> fetches + 1,
                                                         index |-> i,
                                                         at |-> now,
                                                         pubId |-> st.d.published + 1])
                                         ELSE @])

\* lines 98-141: the loop over one feed response; st carries the dedup cache,
\* the distributor, the outcome of each activity and the log of the publishes
RECURSIVE ProcessActivities(_, _, _, _)
ProcessActivities(activities, address, i, st) ==
    IF i > Len(activities) THEN st
    ELSE LET activity == activities[i]
             activityMs == NormaliseTimestamp(activity.timestamp)
         IN  IF IsTooOld(now, activityMs)
             THEN ProcessActivities(activities, address, i + 1,
                      [st EXCEPT !.outcomes = Append(@, "tooOld")])
             ELSE LET queueActivity == QueueActivity(activity, activityMs, address)
                      dedupKey == BuildActivityDedupKey(queueActivity)
                      isNew == CheckAndRememberResult(st.cache, dedupKey, now)
                      remembered == CheckAndRememberCache(st.cache, dedupKey, now)
                  IN  IF ~isNew
                      THEN ProcessActivities(activities, address, i + 1,
                               [st EXCEPT !.cache = remembered,
                                          !.outcomes = Append(@, "duplicate")])
                      ELSE ProcessActivities(activities, address, i + 1,
                               [st EXCEPT !.cache = remembered,
                                          !.d = PublishActivityToWorkers(@, queueActivity),
                                          !.outcomes = Append(@, "published"),
                                          !.publishLog =
                                              Append(@, [key |-> dedupKey,
                                                         cycle |-> cycleCount,
                                                         fetch |-> fetches + 1,
                                                         index |-> i,
                                                         at |-> now,
                                                         pubId |-> st.d.published + 1])])

InitMonitorWith(tooOld, activities) ==
    /\ feed = activities
    /\ monitorIsRunning = TRUE
    /\ monitorPc = "loop"
    /\ addressIndex = 1
    /\ cycleCount = 0
    /\ tooOldSeconds = tooOld
    /\ outcomes = <<>>
    /\ fetches = 0
    /\ fetchError = FALSE
    /\ fed = 0
    /\ publishLog = <<>>

InitMonitor(tooOld) == InitMonitorWith(tooOld, FeedActivities)

\* a loop that does not look at isRunning
MonitorCycleStartRegardless ==
    /\ monitorPc = "loop"
    /\ fetches < MaxFetches
    /\ cycleCount' = cycleCount + 1
    /\ addressIndex' = 1
    /\ monitorPc' = "fetch"
    /\ fetchError' = FALSE
    /\ UNCHANGED <<monitorIsRunning, monitorEnv, outcomes, fetches, fed, publishLog,
                   dedupVars, distVars, workerVars>>

\* while (isRunning) { cycleCount++; ... fetchTradeData() starts with the first address
MonitorCycleStart ==
    /\ monitorPc = "loop"
    /\ monitorIsRunning
    /\ fetches < MaxFetches
    /\ cycleCount' = cycleCount + 1
    /\ addressIndex' = 1
    /\ monitorPc' = "fetch"
    /\ fetchError' = FALSE
    /\ UNCHANGED <<monitorIsRunning, monitorEnv, outcomes, fetches, fed, publishLog,
                   dedupVars, distVars, workerVars>>

\* while (isRunning) fails: the loop is left
MonitorExit ==
    /\ monitorPc = "loop"
    /\ ~monitorIsRunning
    /\ monitorPc' = "stopped"
    /\ fetchError' = FALSE
    /\ UNCHANGED <<monitorIsRunning, addressIndex, cycleCount, monitorEnv, outcomes,
                   fetches, fed, publishLog, dedupVars, distVars, workerVars>>

\* the address loop goes on to the next address, or fetchTradeData returns:
\* if (!isRunning) break; else sleep FETCH_INTERVAL
AfterAddress ==
    IF addressIndex < Len(USER_ADDRESSES)
    THEN /\ addressIndex' = addressIndex + 1
         /\ monitorPc' = "fetch"
    ELSE /\ addressIndex' = addressIndex
         /\ monitorPc' = IF monitorIsRunning THEN "sleep" ELSE "stopped"

\* a catch around the whole address loop: the error ends the cycle
AfterErrorEndsCycle ==
    /\ addressIndex' = addressIndex
    /\ monitorPc' = IF monitorIsRunning THEN "sleep" ELSE "stopped"

\* catch (error) of the address loop: the error is logged and the loop goes on
\* with the next address
AfterError == AfterAddress

\* await fetchData(apiUrl) answers something that is no array, or an empty
\* array: continue, the address is skipped for this cycle
MonitorFetchNothing ==
    /\ monitorPc = "fetch"
    /\ fetches < MaxFetches
    /\ fetches' = fetches + 1
    /\ AfterAddress
    /\ outcomes' = <<>>
    /\ fetchError' = FALSE
    /\ UNCHANGED <<monitorIsRunning, cycleCount, monitorEnv, fed, publishLog, dedupVars,
                   distVars, workerVars>>

\* await fetchData(apiUrl) throws (timeout, transport error): caught at line
\* 164.  A request can always end this way, the feed's budget used up or not.
MonitorFetchThrows ==
    /\ monitorPc = "fetch"
    /\ fetches' = fetches + 1
    /\ AfterError
    /\ outcomes' = <<>>
    /\ fetchError' = TRUE
    /\ UNCHANGED <<monitorIsRunning, cycleCount, monitorEnv, fed, publishLog, dedupVars,
                   distVars, workerVars>>

\* await fetchData(apiUrl) answers an array of which the activities are
\* processed and what follows them is not, because processing it throws (a
\* null element: reading its timestamp throws): the rest of the response and
\* the positions request are skipped (catch at line 164)
MonitorProcessingThrows(activities) ==
    /\ monitorPc = "fetch"
    /\ Len(activities) > 0
    /\ fetches < MaxFetches
    /\ fed + Len(activities) <= MaxFed
    /\ fetches' = fetches + 1
    /\ fed' = fed + Len(activities)
    /\ LET st == ProcessActivities(activities, USER_ADDRESSES[addressIndex], 1,
                     [cache |-> cache, d |-> DistState, outcomes |-> <<>>,
                      publishLog |-> publishLog])
       IN  /\ cache' = st.cache
           /\ SetDist(st.d)
           /\ outcomes' = st.outcomes
           /\ publishLog' = st.publishLog
    /\ AfterError
    /\ fetchError' = TRUE
    /\ UNCHANGED <<monitorIsRunning, cycleCount, monitorEnv, shutdowns,
                   ttlMs, maxEntries, now, lastOp, lastTrue, admittedSince, workerVars>>

\* await fetchData(apiUrl) answers a non-empty array: every activity is
\* processed, then the positions are requested
MonitorFetchActivities(activities) ==
    /\ monitorPc = "fetch"
    /\ Len(activities) > 0
    /\ fetches < MaxFetches
    /\ fed + Len(activities) <= MaxFed
    /\ fetches' = fetches + 1
    /\ fed' = fed + Len(activities)
    /\ LET st == ProcessActivities(activities, USER_ADDRESSES[addressIndex], 1,
                     [cache |-> cache, d |-> DistState, outcomes |-> <<>>,
                      publishLog |-> publishLog])
       IN  /\ cache' = st.cache
           /\ SetDist(st.d)
           /\ outcomes' = st.outcomes
           /\ publishLog' = st.publishLog
    /\ monitorPc' = "positions"
    /\ fetchError' = FALSE
    /\ UNCHANGED <<monitorIsRunning, addressIndex, cycleCount, monitorEnv, shutdowns,
                   ttlMs, maxEntries, now, lastOp, lastTrue, admittedSince, workerVars>>

\* await fetchData(positionsUrl) answers: the position cache is refreshed (it
\* feeds nothing in the pipeline), and the address is done
MonitorFetchPositions ==
    /\ monitorPc = "positions"
    /\ AfterAddress
    /\ fetchError' = FALSE
    /\ outcomes' = <<>>
    /\ UNCHANGED <<monitorIsRunning, cycleCount, monitorEnv, fetches, fed, publishLog,
                   dedupVars, distVars, workerVars>>

\* await fetchData(positionsUrl) throws: caught at line 164, the address is done
MonitorPositionsThrow ==
    /\ monitorPc = "positions"
    /\ AfterError
    /\ fetchError' = TRUE
    /\ outcomes' = <<>>
    /\ UNCHANGED <<monitorIsRunning, cycleCount, monitorEnv, fetches, fed, publishLog,
                   dedupVars, distVars, workerVars>>

\* the FETCH_INTERVAL sleep ends
MonitorSleepDone ==
    /\ monitorPc = "sleep"
    /\ monitorPc' = "loop"
    /\ fetchError' = FALSE
    /\ UNCHANGED <<monitorIsRunning, addressIndex, cycleCount, monitorEnv, outcomes,
                   fetches, fed, publishLog, dedupVars, distVars, workerVars>>

\* stopTradeMonitor()
StopTradeMonitor ==
    /\ monitorIsRunning
    /\ monitorIsRunning' = FALSE
    /\ UNCHANGED <<monitorPc, addressIndex, cycleCount, monitorEnv, outcomes,
                   fetches, fed, publishLog, fetchError, dedupVars, distVars, workerVars>>

\* A second passes on the wall clock.  The pipeline reads the clock only while
\* it processes a feed response, so the seconds that pass are counted while the
\* monitor waits for one.
ClockSecond ==
    /\ monitorPc = "fetch"
    /\ fetches < MaxFetches
    /\ now < Epoch + MaxSeconds * MsPerSecond
    /\ now' = now + MsPerSecond
    /\ UNCHANGED <<cache, ttlMs, maxEntries, lastOp, lastTrue, admittedSince, distVars,
                   monitorVars, workerVars>>

MonitorFetchStep == \E activities \in FeedResponses : MonitorFetchActivities(activities)

MonitorProcessingStep ==
    \E activities \in FeedResponses : MonitorProcessingThrows(activities)

(***************************************************************************)
(* executorWorker: the message handler, start(), the dequeue loop and the  *)
(* aggregation flusher of one worker, with the paper trader or the live    *)
(* order path.  Amounts, sizes and prices are whole hundredths.            *)
(***************************************************************************)

\* ENV.TRADE_AGGREGATION_WINDOW_SECONDS
TRADE_AGGREGATION_WINDOW_SECONDS == 1
TRADE_AGGREGATION_MIN_TOTAL_USD == 100
AGGREGATION_CHECK_INTERVAL_MS == 500

\* the payload of an activity message: trade n of user u1 on market m; msgId
\* is set on arrival to the number of the message, which tells two arrivals of
\* one payload apart
WorkerPayload(n, m, side, usdcSize, price, size) ==
    [transactionHash |-> <<"0", "x", n>>, userAddress |-> <<"u", "1">>,
     conditionId |-> <<"c", m>>, asset |-> <<"a", m>>, side |-> side,
     usdcSize |-> usdcSize, price |-> price, size |-> size, msgId |-> 0]

\* the payloads of the activity messages a worker may be sent: two BUYs below
\* TRADE_AGGREGATION_MIN_TOTAL_USD on one market, a SELL below it and a BUY at it
WorkerActivities ==
    { WorkerPayload("1", "1", BUY, 40, 50, 80),
      WorkerPayload("2", "1", BUY, 70, 60, 120),
      WorkerPayload("3", "1", SELL, 40, 50, 80),
      WorkerPayload("5", "1", BUY, 100, 50, 200) }

\* the same with small BUYs on two markets
TwoMarketActivities ==
    { WorkerPayload("2", "1", BUY, 70, 60, 120),
      WorkerPayload("4", "2", BUY, 50, 50, 100),
      WorkerPayload("3", "1", SELL, 40, 50, 80) }

\* small BUYs at two prices on one market, and a BUY at the minimum
ThreeBuyActivities ==
    { WorkerPayload("1", "1", BUY, 40, 50, 80),
      WorkerPayload("6", "1", BUY, 30, 60, 50),
      WorkerPayload("5", "1", BUY, 100, 50, 200) }

\* what a paper trader is sent: BUYs on two markets that together use up the
\* balance, a SELL of a part of the first at another price than it was bought
\* at, and a SELL of all of it
PaperActivities ==
    { WorkerPayload("1", "1", BUY, 60, 50, 120),
      WorkerPayload("2", "2", BUY, 40, 50, 80),
      WorkerPayload("3", "1", SELL, 48, 60, 80),
      WorkerPayload("4", "1", SELL, 60, 50, 120) }

\* ENV.PAPER_TRADING_BALANCE_USD
PAPER_TRADING_BALANCE_USD == 100

\* positions.get(cid): the index of the position, 0 standing for undefined
PositionIndex(positions, cid) ==
    IF \E i \in 1..Len(positions) : positions[i].conditionId = cid
    THEN CHOOSE i \in 1..Len(positions) : positions[i].conditionId = cid
    ELSE 0

\* a BUY that is never refused
InsufficientBalanceNever(pt, usdc) == FALSE

\* if (this.balance < usdc)
InsufficientBalance(pt, usdc) == pt.balance < usdc

\* a SELL that is refused only when there is no position
InsufficientPositionOnlyMissing(pt, idx, size) == idx = 0

\* if (!existing || existing.size < size)
InsufficientPosition(pt, idx, size) == idx = 0 \/ pt.positions[idx].size < size

\* a SELL that keeps the position whatever is left of it
AfterSellKeeps(positions, idx, sold) == [positions EXCEPT ![idx] = sold]

\* if (existing.size === 0) this.positions.delete(cid);
\* else this.positions.set(cid, existing)
AfterSell(positions, idx, sold) ==
    IF sold.size = 0 THEN RemoveAt(positions, idx)
    ELSE [positions EXCEPT ![idx] = sold]

\* PaperTrader.executeTrade(trade) on the paper trader pt: what it returns and
\* the paper trader it leaves; avgPrice is kept as the fraction num / den
ExecuteTrade(pt, trade) ==
    LET usdc == trade.usdcSize
        size == trade.size
        cid == trade.conditionId
        idx == PositionIndex(pt.positions, cid)
    IN  IF trade.side = BUY
        THEN IF InsufficientBalance(pt, usdc)
             THEN [executed |-> FALSE, pt |-> pt]
             ELSE LET existing ==
                          IF idx >= 1 THEN pt.positions[idx]
                          ELSE [conditionId |-> cid, asset |-> trade.asset, size |-> 0,
                                invested |-> 0, avgPrice |-> [num |-> 0, den |-> 1]]
                      bought ==
                          [existing EXCEPT
                              !.size = @ + size,
                              !.invested = @ + usdc,
                              !.avgPrice =
                                  IF existing.size + size > 0
                                  THEN [num |-> existing.invested + usdc,
                                        den |-> existing.size + size]
                                  ELSE [num |-> trade.price, den |-> 1]]
                  IN  [executed |-> TRUE,
                       pt |-> [balance |-> pt.balance - usdc,
                               positions |->
                                   IF idx >= 1
                                   THEN [pt.positions EXCEPT ![idx] = bought]
                                   ELSE Append(pt.positions, bought)]]
        ELSE IF InsufficientPosition(pt, idx, size)
             THEN [executed |-> FALSE, pt |-> pt]
             ELSE LET sold == [pt.positions[idx] EXCEPT !.size = @ - size,
                                                        !.invested = @ - usdc]
                  IN  [executed |-> TRUE,
                       pt |-> [balance |-> pt.balance + usdc,
                               positions |-> AfterSell(pt.positions, idx, sold)]]

\* getAggregationKey(trade)
GetAggregationKey(trade) ==
    Join(<<trade.userAddress, trade.conditionId, trade.asset, trade.side>>)

\* tradeAggregationBuffer.get(key): the index of the record, 0 standing for undefined
BufferIndex(buf, key) ==
    IF \E i \in 1..Len(buf) : buf[i].key = key
    THEN CHOOSE i \in 1..Len(buf) : buf[i].key = key
    ELSE 0

\* a total that counts the latest trade only
TotalValueOfLast(trades) ==
    trades[Len(trades)].usdcSize * trades[Len(trades)].price

\* trades.reduce((sum, t) => sum + (t.usdcSize || 0) * (t.price || 0), 0)
RECURSIVE TotalValue(_)
TotalValue(trades) ==
    IF Len(trades) = 0 THEN 0
    ELSE Head(trades).usdcSize * Head(trades).price + TotalValue(Tail(trades))

\* addToAggregationBuffer(trade) at time t; averagePrice is kept as the
\* fraction num / den that the code's division evaluates
AddToAggregationBuffer(buf, trade, t) ==
    LET key == GetAggregationKey(trade)
        idx == BufferIndex(buf, key)
    IN  IF idx >= 1
        THEN LET existing == buf[idx]
                 trades == Append(existing.trades, trade)
                 total == existing.totalUsdcSize + trade.usdcSize
             IN  [buf EXCEPT ![idx] =
                     [existing EXCEPT
                         !.trades = trades,
                         !.totalUsdcSize = total,
                         !.averagePrice =
                             IF total > 0
                             THEN [num |-> TotalValue(trades), den |-> total]
                             ELSE [num |-> trade.price, den |-> 1],
                         !.lastTradeTime = t]]
        ELSE Append(buf, [key |-> key, side |-> trade.side, trades |-> <<trade>>,
                          totalUsdcSize |-> trade.usdcSize,
                          averagePrice |-> [num |-> trade.price, den |-> 1],
                          firstTradeTime |-> t, lastTradeTime |-> t])

\* a window compared in seconds against a clock in milliseconds
WindowElapsedInSeconds(agg, t) ==
    t - agg.firstTradeTime >= TRADE_AGGREGATION_WINDOW_SECONDS

\* now - agg.firstTradeTime >= windowMs
WindowElapsed(agg, t) ==
    t - agg.firstTradeTime >= TRADE_AGGREGATION_WINDOW_SECONDS * MsPerSecond

\* a getReadyAggregatedTrades that leaves the records it returns in the buffer
RECURSIVE GetReadyKeepsReady(_, _)
GetReadyKeepsReady(buf, t) ==
    IF Len(buf) = 0 THEN [ready |-> <<>>, buffer |-> <<>>]
    ELSE LET agg == Head(buf)
             rest == GetReadyKeepsReady(Tail(buf), t)
         IN  IF WindowElapsed(agg, t)
             THEN IF agg.totalUsdcSize >= TRADE_AGGREGATION_MIN_TOTAL_USD
                  THEN [rest EXCEPT !.ready = <<agg>> \o @, !.buffer = <<agg>> \o @]
                  ELSE rest
             ELSE [rest EXCEPT !.buffer = <<agg>> \o @]

\* getReadyAggregatedTrades() at time t: the records to submit, and the buffer
\* it leaves behind
RECURSIVE GetReadyAggregatedTrades(_, _)
GetReadyAggregatedTrades(buf, t) ==
    IF Len(buf) = 0 THEN [ready |-> <<>>, buffer |-> <<>>]
    ELSE LET agg == Head(buf)
             rest == GetReadyAggregatedTrades(Tail(buf), t)
         IN  IF WindowElapsed(agg, t)
             THEN IF agg.totalUsdcSize >= TRADE_AGGREGATION_MIN_TOTAL_USD
                  THEN [rest EXCEPT !.ready = <<agg>> \o @]
                  ELSE rest
             ELSE [rest EXCEPT !.buffer = <<agg>> \o @]

\* a test that also buffers a BUY of exactly the minimum
IsAggregationCandidateInclusive(activity) ==
    /\ tradeAggregationEnabled
    /\ activity.side = BUY
    /\ activity.usdcSize <= TRADE_AGGREGATION_MIN_TOTAL_USD

\* TRADE_AGGREGATION_ENABLED && activity.side === 'BUY' &&
\* (activity.usdcSize || 0) < TRADE_AGGREGATION_MIN_TOTAL_USD
IsAggregationCandidate(activity) ==
    /\ tradeAggregationEnabled
    /\ activity.side = BUY
    /\ activity.usdcSize < TRADE_AGGREGATION_MIN_TOTAL_USD

\* a loop that does not look at isRunning
RECURSIVE DequeueLoopIgnoresStop(_, _, _)
DequeueLoopIgnoresStop(q, buf, t) ==
    IF Len(q) = 0
    THEN [localQueue |-> q, buffer |-> buf, loopPc |-> "sleeping", inFlight |-> <<>>]
    ELSE LET activity == Head(q)
         IN  IF IsAggregationCandidate(activity)
             THEN DequeueLoopIgnoresStop(Tail(q),
                                         AddToAggregationBuffer(buf, activity, t), t)
             ELSE [localQueue |-> Tail(q), buffer |-> buf, loopPc |-> "trading",
                   inFlight |-> <<activity>>]

\* a loop that starts the execution of everything queued without awaiting any
DequeueLoopAwaitsNothing(q, buf, t) ==
    IF ~isRunning
    THEN [localQueue |-> q, buffer |-> buf, loopPc |-> "exited", inFlight |-> <<>>]
    ELSE IF Len(q) = 0
    THEN [localQueue |-> q, buffer |-> buf, loopPc |-> "sleeping", inFlight |-> <<>>]
    ELSE [localQueue |-> <<>>, buffer |-> buf, loopPc |-> "trading", inFlight |-> q]

\* dequeueLoop from the top of its while loop up to its next await, at time t:
\* sub-threshold BUYs are buffered one after the other without a pause
RECURSIVE DequeueLoop(_, _, _)
DequeueLoop(q, buf, t) ==
    IF ~isRunning
    THEN [localQueue |-> q, buffer |-> buf, loopPc |-> "exited", inFlight |-> <<>>]
    ELSE IF Len(q) = 0
    THEN [localQueue |-> q, buffer |-> buf, loopPc |-> "sleeping", inFlight |-> <<>>]
    ELSE LET activity == Head(q)
         IN  IF IsAggregationCandidate(activity)
             THEN DequeueLoop(Tail(q), AddToAggregationBuffer(buf, activity, t), t)
             ELSE [localQueue |-> Tail(q), buffer |-> buf, loopPc |-> "trading",
                   inFlight |-> <<activity>>]

\* the dequeue loop runs on from the top of its while loop
RunDequeueLoop ==
    LET w == DequeueLoop(localQueue, tradeAggregationBuffer, now)
    IN  /\ localQueue' = w.localQueue
        /\ tradeAggregationBuffer' = w.buffer
        /\ loopPc' = w.loopPc
        /\ inFlight' = w.inFlight

\* the state of a worker thread when its module has been loaded: the message
\* handler is installed and start() awaits createClobClient()
InitWorkerWith(enabled, paper, payloads, budget, ticks) ==
    /\ workerFeed = payloads
    /\ messageBudget = budget
    /\ tickBudget = ticks
    /\ tradeAggregationEnabled = enabled
    /\ paperTradingEnabled = paper
    /\ paperTrader = [balance |-> PAPER_TRADING_BALANCE_USD, positions |-> <<>>]
    /\ paperLog = <<>>
    /\ removed = <<>>
    /\ isRunning = TRUE
    /\ aggregationTimer = "null"
    /\ aggregationFlushInProgress = FALSE
    /\ tradeAggregationBuffer = <<>>
    /\ localQueue = <<>>
    /\ startPc = "createClobClient"
    /\ loopPc = "notStarted"
    /\ inFlight = <<>>
    /\ flushing = <<>>
    /\ orders = <<>>
    /\ shutdownSeen = FALSE
    /\ received = 0

InitWorker(enabled, paper) ==
    InitWorkerWith(enabled, paper, WorkerActivities, MaxWorkerMessages, MaxWorkerTicks)

\* what no step of the worker changes
othersOfWorker == <<cache, ttlMs, maxEntries, lastOp, lastTrue, admittedSince, distVars,
                    monitorVars, workerFeed, messageBudget, tickBudget>>

\* process.exit(1) has not been called
WorkerAlive == startPc # "exited"

\* createClobClient() resolves: startAggregationFlusher(clobClient), then
\* dequeueLoop(clobClient) up to its first await
WorkerClientReady ==
    /\ startPc = "createClobClient"
    /\ startPc' = "started"
    /\ aggregationTimer' =
           IF ~tradeAggregationEnabled \/ aggregationTimer = "armed"
           THEN aggregationTimer
           ELSE "armed"
    /\ RunDequeueLoop
    /\ UNCHANGED <<tradeAggregationEnabled, isRunning, aggregationFlushInProgress,
                   flushing, orders, shutdownSeen, received, now,
                   paperTradingEnabled, paperTrader, paperLog, removed,
                   othersOfWorker>>

\* createClobClient() rejects: start().catch logs and calls process.exit(1)
WorkerStartFails ==
    /\ startPc = "createClobClient"
    /\ startPc' = "exited"
    /\ UNCHANGED <<tradeAggregationEnabled, isRunning, aggregationTimer,
                   aggregationFlushInProgress, tradeAggregationBuffer, localQueue,
                   loopPc, inFlight, flushing, orders, shutdownSeen, received, now,
                   paperTradingEnabled, paperTrader, paperLog, removed, othersOfWorker>>

\* parentPort.on('message') with { type: 'activity', payload }
WorkerMessageActivity(payload) ==
    /\ WorkerAlive
    /\ received < messageBudget
    /\ received' = received + 1
    /\ localQueue' = Append(localQueue, [payload EXCEPT !.msgId = received + 1])
    /\ UNCHANGED <<tradeAggregationEnabled, isRunning, aggregationTimer,
                   aggregationFlushInProgress, tradeAggregationBuffer, startPc,
                   loopPc, inFlight, flushing, orders, shutdownSeen, now,
                   paperTradingEnabled, paperTrader, paperLog, removed, othersOfWorker>>

\* parentPort.on('message') with { type: 'shutdown' }: isRunning = false and
\* stopAggregationFlusher()
WorkerMessageShutdown ==
    /\ WorkerAlive
    /\ isRunning' = FALSE
    /\ aggregationTimer' = "null"
    /\ shutdownSeen' = TRUE
    /\ UNCHANGED <<tradeAggregationEnabled, aggregationFlushInProgress,
                   tradeAggregationBuffer, localQueue, startPc, loopPc, inFlight,
                   flushing, orders, received, now,
                   paperTradingEnabled, paperTrader, paperLog, removed,
                   othersOfWorker>>

\* the 200 ms pause of the idle dequeue loop ends
WorkerSleepDone ==
    /\ WorkerAlive
    /\ loopPc = "sleeping"
    /\ RunDequeueLoop
    /\ UNCHANGED <<tradeAggregationEnabled, isRunning, aggregationTimer,
                   aggregationFlushInProgress, startPc, flushing, orders,
                   shutdownSeen, received, now,
                   paperTradingEnabled, paperTrader, paperLog, removed,
                   othersOfWorker>>

\* how the awaits of an execution may end: every fetch and postOrder return,
\* a positions or balance fetch throws (postOrder is not reached), or
\* postOrder is called and throws
TradeOutcomes == {"completed", "fetchThrew", "postOrderThrew"}

\* the call of postOrder doTrading makes for one activity
DirectOrder(activity, threw) ==
    [kind |-> "direct", trades |-> <<activity>>, usdcSize |-> activity.usdcSize,
     price |-> [num |-> activity.price, den |-> 1], threw |-> threw]

\* the orders after an execution that would call postOrder with order
OrdersAfter(order, outcome) ==
    IF outcome = "fetchThrew" THEN orders ELSE Append(orders, order)

\* await doTrading(clobClient, [activity]) ends.  With paper trading the
\* paper trader executes or refuses the trade and nothing is awaited; without,
\* the fetches and postOrder return, or one of them throws and the loop's
\* catch logs it.  Then the loop goes on.
WorkerTradeDone(outcome) ==
    /\ WorkerAlive
    /\ loopPc = "trading"
    /\ IF paperTradingEnabled
       THEN /\ outcome = "completed"
            /\ paperTrader' = ExecuteTrade(paperTrader, inFlight[1]).pt
            /\ paperLog' = Append(paperLog,
                   [trade |-> inFlight[1],
                    executed |-> ExecuteTrade(paperTrader, inFlight[1]).executed])
            /\ orders' = orders
       ELSE /\ orders' = OrdersAfter(DirectOrder(inFlight[1], outcome = "postOrderThrew"),
                                     outcome)
            /\ UNCHANGED <<paperTrader, paperLog>>
    /\ RunDequeueLoop
    /\ UNCHANGED <<tradeAggregationEnabled, isRunning, aggregationTimer,
                   aggregationFlushInProgress, startPc, flushing, shutdownSeen,
                   received, now, paperTradingEnabled, removed, othersOfWorker>>

\* a callback that only looks at isRunning
FlusherTickSkipsWhenStopped == ~isRunning

\* if (!isRunning || aggregationFlushInProgress) return
FlusherTickSkips == ~isRunning \/ aggregationFlushInProgress

\* the records of the buffer whose window has elapsed at time t, stamped with t
Elapsed(buf, t) ==
    LET IsElapsed(agg) == WindowElapsed(agg, t)
        old == SelectSeq(buf, IsElapsed)
    IN  [i \in 1..Len(old) |-> [agg |-> old[i], at |-> t]]

\* the setInterval callback of startAggregationFlusher runs
WorkerTimerFires ==
    /\ WorkerAlive
    /\ aggregationTimer = "armed"
    /\ IF FlusherTickSkips
       THEN UNCHANGED <<tradeAggregationBuffer, aggregationFlushInProgress, flushing,
                        removed>>
       ELSE LET r == GetReadyAggregatedTrades(tradeAggregationBuffer, now)
            IN  /\ tradeAggregationBuffer' = r.buffer
                /\ IF Len(r.ready) = 0
                   THEN UNCHANGED <<aggregationFlushInProgress, flushing>>
                   ELSE /\ aggregationFlushInProgress' = TRUE
                        /\ flushing' = r.ready
                /\ removed' = removed \o Elapsed(tradeAggregationBuffer, now)
    /\ UNCHANGED <<tradeAggregationEnabled, isRunning, aggregationTimer, localQueue,
                   startPc, loopPc, inFlight, orders, shutdownSeen, received, now,
                   paperTradingEnabled, paperTrader, paperLog, othersOfWorker>>

\* the call of postOrder doAggregatedTrading makes for one record
AggregatedOrder(agg, threw) ==
    [kind |-> "aggregated", trades |-> agg.trades, usdcSize |-> agg.totalUsdcSize,
     price |-> agg.averagePrice, threw |-> threw]

\* doAggregatedTrading goes through one record: the fetches and postOrder
\* return and the next record is up, or one of them throws, which ends the
\* flush (catch, finally).  The paper trader plays no part in it.
WorkerFlushOrder(outcome) ==
    /\ WorkerAlive
    /\ aggregationFlushInProgress
    /\ orders' = OrdersAfter(AggregatedOrder(Head(flushing), outcome = "postOrderThrew"),
                             outcome)
    /\ flushing' = IF outcome = "completed" THEN Tail(flushing) ELSE <<>>
    /\ aggregationFlushInProgress' = (outcome = "completed" /\ Len(flushing) > 1)
    /\ UNCHANGED <<tradeAggregationEnabled, isRunning, aggregationTimer,
                   tradeAggregationBuffer, localQueue, startPc, loopPc, inFlight,
                   shutdownSeen, received, now, paperTradingEnabled, paperTrader,
                   paperLog, removed, othersOfWorker>>

\* AGGREGATION_CHECK_INTERVAL_MS pass on the worker's clock
WorkerTick ==
    /\ now < tickBudget * AGGREGATION_CHECK_INTERVAL_MS
    /\ now' = now + AGGREGATION_CHECK_INTERVAL_MS
    /\ UNCHANGED <<workerVars, othersOfWorker>>

WorkerActivityStep == \E payload \in workerFeed : WorkerMessageActivity(payload)

WorkerTradeStep == \E outcome \in TradeOutcomes : WorkerTradeDone(outcome)

WorkerFlushStep == \E outcome \in TradeOutcomes : WorkerFlushOrder(outcome)

NextWorker ==
    \/ WorkerClientReady
    \/ WorkerStartFails
    \/ WorkerActivityStep
    \/ WorkerMessageShutdown
    \/ WorkerSleepDone
    \/ WorkerTradeStep
    \/ WorkerTimerFires
    \/ WorkerFlushStep
    \/ WorkerTick

(***************************************************************************)
(* tradeExecutor, the executor that polls the database                     *)
(***************************************************************************)

\* the documents of the activity collection: the monitor's TRADE documents of
\* one user, two BUYs below the minimum on one market and one BUY above it
ExecutorTradeIds == 1..3

ExecutorTrade(id) ==
    [id |-> id, userAddress |-> <<"u", "1">>, conditionId |-> <<"c", "1">>,
     asset |-> <<"a", "1">>, side |-> BUY,
     usdcSize |-> IF id = 1 THEN 40 ELSE IF id = 2 THEN 30 ELSE 150,
     price |-> 50]

\* the setTimeout at the end of an iteration of tradeExecutor's loop
EXECUTOR_POLL_INTERVAL_MS == 300

\* readTempTrades(): the documents with bot: false and botExcutedTime: 0, as a
\* sequence
RECURSIVE ReadTempTrades(_, _)
ReadTempTrades(docs, id) ==
    IF id > Cardinality(ExecutorTradeIds) THEN <<>>
    ELSE (IF docs[id].present /\ ~docs[id].bot /\ docs[id].botExcutedTime = 0
          THEN <<ExecutorTrade(id)>> ELSE <<>>) \o ReadTempTrades(docs, id + 1)

\* tradeExecutor.ts addToAggregationBuffer(trade) at time t
ExecutorAddToAggregationBuffer(buf, trade, t) ==
    LET key == GetAggregationKey(trade)
        idx == BufferIndex(buf, key)
    IN  IF idx >= 1
        THEN LET existing == buf[idx]
                 trades == Append(existing.trades, trade)
                 total == existing.totalUsdcSize + trade.usdcSize
             IN  [buf EXCEPT ![idx] =
                     [existing EXCEPT
                         !.trades = trades,
                         !.totalUsdcSize = total,
                         !.averagePrice = [num |-> TotalValue(trades), den |-> total],
                         !.lastTradeTime = t]]
        ELSE Append(buf, [key |-> key, side |-> trade.side, trades |-> <<trade>>,
                          totalUsdcSize |-> trade.usdcSize,
                          averagePrice |-> [num |-> trade.price, den |-> 1],
                          firstTradeTime |-> t, lastTradeTime |-> t])

\* updateOne({ _id }, update) for every trade of trades
RECURSIVE MarkAll(_, _, _, _)
MarkAll(docs, trades, bot, botExcutedTime) ==
    IF Len(trades) = 0 THEN docs
    ELSE MarkAll([docs EXCEPT ![Head(trades).id] =
                      [@ EXCEPT !.bot = @ \/ bot,
                                !.botExcutedTime =
                                    IF botExcutedTime = 0 THEN @ ELSE botExcutedTime]],
                 Tail(trades), bot, botExcutedTime)

\* the for loop over the trades read: a BUY below the minimum is added to the
\* buffer, any other trade goes to doTrading, which marks it and posts its order
RECURSIVE ExecutorTakeTrades(_, _, _)
ExecutorTakeTrades(st, trades, t) ==
    IF Len(trades) = 0 THEN st
    ELSE LET trade == Head(trades)
         IN  IF trade.side = BUY /\ trade.usdcSize < TRADE_AGGREGATION_MIN_TOTAL_USD
             THEN ExecutorTakeTrades(
                      [st EXCEPT !.buffer =
                                     ExecutorAddToAggregationBuffer(@, trade, t)],
                      Tail(trades), t)
             ELSE ExecutorTakeTrades(
                      [st EXCEPT !.docs = MarkAll(@, <<trade>>, FALSE, 1),
                                 !.orders = Append(@, [kind |-> "direct",
                                                       trades |-> <<trade>>,
                                                       usdcSize |-> trade.usdcSize])],
                      Tail(trades), t)

\* tradeExecutor.ts getReadyAggregatedTrades() at time t, then
\* doAggregatedTrading on what it returns: a record whose window is over is
\* deleted; with a total of the minimum or more its trades are marked
\* botExcutedTime: 1 and its order is posted, with less they are marked bot: true
RECURSIVE ExecutorFlush(_, _, _)
ExecutorFlush(st, buf, t) ==
    IF Len(buf) = 0 THEN st
    ELSE LET agg == Head(buf)
         IN  IF WindowElapsed(agg, t)
             THEN IF agg.totalUsdcSize >= TRADE_AGGREGATION_MIN_TOTAL_USD
                  THEN ExecutorFlush(
                           [st EXCEPT !.docs = MarkAll(@, agg.trades, FALSE, 1),
                                      !.orders = Append(@, [kind |-> "aggregated",
                                                            trades |-> agg.trades,
                                                            usdcSize |-> agg.totalUsdcSize])],
                           Tail(buf), t)
                  ELSE ExecutorFlush([st EXCEPT !.docs = MarkAll(@, agg.trades, TRUE, 0)],
                                     Tail(buf), t)
             ELSE ExecutorFlush([st EXCEPT !.buffer = Append(@, agg)], Tail(buf), t)

InitTradeExecutor ==
    /\ executorDocs = [id \in ExecutorTradeIds |->
                          [present |-> FALSE, bot |-> FALSE, botExcutedTime |-> 0]]
    /\ executorBuffer = <<>>
    /\ executorOrders = <<>>
    /\ executorIsRunning = TRUE
    /\ executorNow = 0
    /\ executorPolls = 0

\* the monitor of the database pipeline stores a new TRADE document
ExecutorTradeStored(id) ==
    /\ ~executorDocs[id].present
    /\ executorDocs' = [executorDocs EXCEPT ![id].present = TRUE]
    /\ UNCHANGED <<executorBuffer, executorOrders, executorIsRunning, executorNow,
                   executorPolls>>

\* one iteration of tradeExecutor's while loop with TRADE_AGGREGATION_ENABLED
\* and without paper trading, every await returning: read the unprocessed
\* trades, buffer or execute each, flush the records that are ready, pause
ExecutorIteration ==
    /\ executorIsRunning
    /\ executorPolls < MaxPolls
    /\ LET read == ReadTempTrades(executorDocs, 1)
           taken == ExecutorTakeTrades([docs |-> executorDocs,
                                        buffer |-> executorBuffer,
                                        orders |-> executorOrders],
                                       read, executorNow)
           done == ExecutorFlush([taken EXCEPT !.buffer = <<>>], taken.buffer,
                                 executorNow)
       IN  /\ executorDocs' = done.docs
           /\ executorBuffer' = done.buffer
           /\ executorOrders' = done.orders
    /\ executorNow' = executorNow + EXECUTOR_POLL_INTERVAL_MS
    /\ executorPolls' = executorPolls + 1
    /\ UNCHANGED executorIsRunning

\* stopTradeExecutor()
StopTradeExecutor ==
    /\ executorIsRunning
    /\ executorIsRunning' = FALSE
    /\ UNCHANGED <<executorDocs, executorBuffer, executorOrders, executorNow,
                   executorPolls>>

othersOfExecutor == <<dedupVars, distVars, workerVars, monitorIsRunning, monitorPc,
                      addressIndex, cycleCount, tooOldSeconds, feed, outcomes,
                      fetches, fed, publishLog, fetchError, queueVars>>

ExecutorStoreStep ==
    /\ \E id \in ExecutorTradeIds : ExecutorTradeStored(id)
    /\ UNCHANGED othersOfExecutor

ExecutorIterationStep == ExecutorIteration /\ UNCHANGED othersOfExecutor

ExecutorStopStep == StopTradeExecutor /\ UNCHANGED othersOfExecutor

NextExecutor ==
    \/ ExecutorStoreStep
    \/ ExecutorIterationStep
    \/ ExecutorStopStep

\* a worker that is not registered yet registers
WorkerJoins ==
    /\ \E w \in WorkerIds :
           /\ FindIndex(workerPorts, w) = 0
           /\ Register(w, w)
    /\ UNCHANGED <<dedupVars, monitorVars, workerVars>>

\* the pipeline: activityDedupCache, the distributor and the monitor, with
\* each worker joining once, at any time (workers leaving and registering
\* again are followed in SpecDist)
InitPipeline ==
    /\ \E ttlSeconds \in DedupTtlSecondsChoices :
           InitDedupWith(Max(ttlSeconds, 1) * MsPerSecond, DefaultMaxEntries, Epoch)
    /\ InitDist
    /\ InitTradeExecutor
    /\ \E tooOld \in TooOldSecondsChoices : InitMonitor(tooOld)
    /\ InitWorker(TRUE, FALSE)

Next ==
    \/ MonitorCycleStart
    \/ MonitorExit
    \/ MonitorFetchNothing
    \/ MonitorFetchStep
    \/ MonitorFetchPositions
    \/ MonitorSleepDone
    \/ StopTradeMonitor
    \/ ClockSecond
    \/ WorkerJoins

Spec == InitPipeline /\ [][Next]_vars

\* the pipeline without a worker, fed two activities that have no
\* transactionHash
InitNoHash ==
    /\ \E ttlSeconds \in DedupTtlSecondsChoices :
           InitDedupWith(Max(ttlSeconds, 1) * MsPerSecond, DefaultMaxEntries, Epoch)
    /\ InitDist
    /\ InitTradeExecutor
    /\ \E tooOld \in TooOldSecondsChoices :
           \E b \in NoHashActivities \ {FirstNoHashActivity} :
               InitMonitorWith(tooOld, {FirstNoHashActivity, b})
    /\ InitWorker(TRUE, FALSE)

NextNoHash ==
    \/ MonitorCycleStart
    \/ MonitorFetchNothing
    \/ MonitorFetchStep
    \/ MonitorFetchPositions
    \/ MonitorSleepDone
    \/ ClockSecond

SpecNoHash == InitNoHash /\ [][NextNoHash]_vars

\* the pipeline without a worker, fed one activity whose timestamp is one of
\* ThresholdTimestamps, with the usual TOO_OLD_SECONDS or one that lets every
\* age through
InitTimestamps ==
    /\ InitDedupWith(MsPerSecond, DefaultMaxEntries, Epoch)
    /\ InitDist
    /\ InitTradeExecutor
    /\ \E tooOld \in TooOldSecondsChoices \cup {TooOldNever} :
           \E timestamp \in ThresholdTimestamps :
               InitMonitorWith(tooOld, {TimestampActivity(timestamp)})
    /\ InitWorker(TRUE, FALSE)

SpecTimestamps == InitTimestamps /\ [][NextNoHash]_vars

\* the pipeline without a worker, fed one activity whose age is around
\* TOO_OLD_SECONDS
InitAge ==
    /\ InitDedupWith(MsPerSecond, DefaultMaxEntries, Epoch)
    /\ InitDist
    /\ InitTradeExecutor
    /\ \E tooOld \in TooOldSecondsChoices \cup {1} :
           \E timestamp \in AgeTimestamps(tooOld) :
               InitMonitorWith(tooOld, {TimestampActivity(timestamp)})
    /\ InitWorker(TRUE, FALSE)

SpecAge == InitAge /\ [][NextNoHash]_vars

\* a request of the monitor is answered, or fails
MonitorRequestSettles ==
    \/ MonitorFetchNothing
    \/ MonitorFetchThrows
    \/ MonitorFetchStep
    \/ MonitorProcessingStep
    \/ MonitorFetchPositions
    \/ MonitorPositionsThrow

\* the monitor's own steps: the tests of its while loop and the end of its sleep
MonitorLoopStep ==
    \/ MonitorCycleStart
    \/ MonitorExit
    \/ MonitorSleepDone

\* the monitor with the errors of its requests, publishing while no worker is
\* registered
NextMonitor ==
    \/ MonitorLoopStep
    \/ MonitorRequestSettles
    \/ StopTradeMonitor
    \/ ClockSecond

SpecMonitor == InitPipeline /\ [][NextMonitor]_vars

\* the same where the event loop runs what is ready and every request settles
\* (its timeout is the only bound)
SpecMonitorFair ==
    /\ SpecMonitor
    /\ WF_vars(MonitorLoopStep)
    /\ WF_vars(MonitorRequestSettles)

\* new InMemoryDedupCache(ttlMs, maxEntries)
InitDedup ==
    \E ttlArg \in 0..MaxTtlArg, maxArg \in 0..MaxEntriesArg :
        InitDedupWith(ttlArg, maxArg, 0)

\* the dedup cache on its own, as constructed with any arguments
InitDedupAlone ==
    /\ InitDedup
    /\ InitDist
    /\ InitTradeExecutor
    /\ InitMonitor(1)
    /\ InitWorker(TRUE, FALSE)

\* the distributor on its own
InitDistAlone ==
    /\ InitDedupWith(1, 1, 0)
    /\ InitDist
    /\ InitTradeExecutor
    /\ InitMonitor(1)
    /\ InitWorker(TRUE, FALSE)

Saturate(n) == Min(n, maxEntries + 1)

\* checkAndRemember(key)
CheckAndRemember(k) ==
    LET result == CheckAndRememberResult(cache, k, now)
    IN  /\ cache' = CheckAndRememberCache(cache, k, now)
        /\ lastOp' = [op |-> "check", key |-> k, result |-> result, count |-> 0,
                      prevTrueAt |-> lastTrue[k], between |-> admittedSince[k]]
        /\ lastTrue' = IF result THEN [lastTrue EXCEPT ![k] = now] ELSE lastTrue
        /\ admittedSince' =
              IF result
              THEN [j \in Keys |-> IF j = k THEN 0 ELSE Saturate(admittedSince[j] + 1)]
              ELSE admittedSince
        /\ UNCHANGED <<ttlMs, maxEntries, now>>

\* size()
Size ==
    /\ cache' = EvictExpired(cache, now)
    /\ lastOp' = [op |-> "size", key |-> <<>>, result |-> FALSE,
                  count |-> Len(EvictExpired(cache, now)),
                  prevTrueAt |-> NoTime, between |-> 0]
    /\ UNCHANGED <<ttlMs, maxEntries, now, lastTrue, admittedSince>>

\* the wall clock advances
Tick ==
    /\ now < MaxNow
    /\ now' = now + 1
    /\ lastOp' = [op |-> "tick", key |-> <<>>, result |-> FALSE, count |-> 0,
                  prevTrueAt |-> NoTime, between |-> 0]
    /\ UNCHANGED <<cache, ttlMs, maxEntries, lastTrue, admittedSince>>

DedupCheckStep ==
    /\ \E k \in Keys : CheckAndRemember(k)
    /\ UNCHANGED <<distVars, monitorVars, workerVars>>

SizeStep ==
    /\ Size
    /\ UNCHANGED <<distVars, monitorVars, workerVars>>

TickStep ==
    /\ Tick
    /\ UNCHANGED <<distVars, monitorVars, workerVars>>

NextDedup ==
    \/ DedupCheckStep
    \/ SizeStep
    \/ TickStep

SpecDedup == InitDedupAlone /\ [][NextDedup]_vars

\* the AsyncActivityQueue on its own
InitQueueAlone ==
    /\ InitDedupWith(1, 1, 0)
    /\ InitDist
    /\ InitTradeExecutor
    /\ InitMonitor(1)
    /\ InitWorker(TRUE, FALSE)

SpecQueue == InitQueueAlone /\ [][NextQueue]_vars

\* the database-polling executor on its own
InitExecutorAlone ==
    /\ InitDedupWith(1, 1, 0)
    /\ InitDist
    /\ InitTradeExecutor
    /\ InitMonitor(1)
    /\ InitWorker(TRUE, FALSE)

SpecExecutor == InitExecutorAlone /\ [][NextExecutor]_vars

SpecDist == InitDistAlone /\ [][NextDist]_vars

SpecDistAll == InitDistAlone /\ [][NextDistAll]_vars

\* one executor worker on its own, with aggregation and paper trading enabled
\* or not
InitWorkerAlone ==
    /\ InitDedupWith(1, 1, 0)
    /\ InitDist
    /\ InitTradeExecutor
    /\ InitMonitor(1)
    /\ \E enabled \in BOOLEAN, paper \in BOOLEAN : InitWorker(enabled, paper)

SpecWorker == InitWorkerAlone /\ [][NextWorker]_vars

\* one executor worker with aggregation and live orders, sent one activity
\* more, small BUYs on two markets among them
InitWorkerTwoMarkets ==
    /\ InitDedupWith(1, 1, 0)
    /\ InitDist
    /\ InitTradeExecutor
    /\ InitMonitor(1)
    /\ InitWorkerWith(TRUE, FALSE, TwoMarketActivities, MaxWorkerMessages + 1,
                      MaxWorkerTicks)

SpecWorkerTwoMarkets == InitWorkerTwoMarkets /\ [][NextWorker]_vars

\* one executor worker with aggregation and live orders whose clock makes one
\* step more, so that a record's window can end while an earlier flush is
\* still waiting for its order
InitWorkerOverlap ==
    /\ InitDedupWith(1, 1, 0)
    /\ InitDist
    /\ InitTradeExecutor
    /\ InitMonitor(1)
    /\ InitWorkerWith(TRUE, FALSE, TwoMarketActivities, MaxWorkerMessages,
                      MaxWorkerTicks + 1)

SpecWorkerOverlap == InitWorkerOverlap /\ [][NextWorker]_vars

\* one executor worker with aggregation and live orders, sent BUYs of one
\* market only
InitWorkerThreeBuys ==
    /\ InitDedupWith(1, 1, 0)
    /\ InitDist
    /\ InitTradeExecutor
    /\ InitMonitor(1)
    /\ InitWorkerWith(TRUE, FALSE, ThreeBuyActivities, MaxWorkerMessages,
                      MaxWorkerTicks)

SpecWorkerThreeBuys == InitWorkerThreeBuys /\ [][NextWorker]_vars

\* one executor worker with paper trading, with aggregation enabled or not
InitWorkerPaper ==
    /\ InitDedupWith(1, 1, 0)
    /\ InitDist
    /\ InitTradeExecutor
    /\ InitMonitor(1)
    /\ \E enabled \in BOOLEAN :
           InitWorkerWith(enabled, TRUE, PaperActivities, MaxWorkerMessages,
                          MaxWorkerTicks)

SpecWorkerPaper == InitWorkerPaper /\ [][NextWorker]_vars

(***************************************************************************)
(* Properties of the dedup cache                                           *)
(***************************************************************************)

\* the entries of c that are not older than the TTL at time t
Unexpired(c, t) == SelectSeq(c, LAMBDA e : t - e.timestamp <= ttlMs)

NoDuplicateKeys(c) == \A i, j \in 1..Len(c) : c[i].key = c[j].key => i = j

\* the last call was checkAndRemember(K), it returned true, and an earlier
\* checkAndRemember(K) had returned true no more than TTL before
SecondTrueWithinTtl ==
    /\ lastOp.op = "check"
    /\ lastOp.result
    /\ lastOp.prevTrueAt # NoTime
    /\ now - lastOp.prevTrueAt <= ttlMs

\* C2 (as claimed): of two calls checkAndRemember(K) between which the TTL did
\* not elapse, at most one returns true, whatever other keys are inserted in
\* between.
C2_AtMostOneTrueWithinTtl == ~SecondTrueWithinTtl

\* C2 (amended): of two calls checkAndRemember(K) between which the TTL did not
\* elapse, at most one returns true, provided fewer than maxEntries other keys
\* were admitted (returned true) between the two calls.
C2_AtMostOneTrueUnlessEvicted == SecondTrueWithinTtl => lastOp.between >= maxEntries

\* a second call for K within the TTL, another key admitted in between, refused
C2_Witness ==
    /\ lastOp.op = "check"
    /\ ~lastOp.result
    /\ lastOp.prevTrueAt # NoTime
    /\ now - lastOp.prevTrueAt = ttlMs
    /\ lastOp.between >= 1
    /\ lastOp.between < maxEntries

\* C3: checkAndRemember(key) first sweeps expired entries, then returns true and
\* inserts (key, now) if the key is absent after the sweep, and returns false
\* (leaving the entry as it is) if it is present; the cache never holds two
\* entries for one key.
C3_CheckAndRememberContract ==
    [][lastOp'.op = "check" =>
        LET k == lastOp'.key
            present == \E i \in 1..Len(cache) :
                          cache[i].key = k /\ now - cache[i].timestamp <= ttlMs
        IN  /\ lastOp'.result = ~present
            /\ ~present => \E i \in 1..Len(cache') :
                              cache'[i] = [key |-> k, timestamp |-> now]
            /\ present => \E i \in 1..Len(cache), j \in 1..Len(cache') :
                              cache[i].key = k /\ cache'[j] = cache[i]
            /\ \A i \in 1..Len(cache') : now - cache'[i].timestamp <= ttlMs
            /\ NoDuplicateKeys(cache')
      ]_vars

\* a call refused because the key is present, made after an expired entry of
\* another key had to be swept
C3_Witness ==
    /\ lastOp.op = "check"
    /\ ~lastOp.result
    /\ \E k \in Keys : lastTrue[k] # NoTime /\ now - lastTrue[k] > ttlMs

\* C4: the number of entries held by the dedup cache is at most maxEntries,
\* whatever string keys are used.
C4_SizeAtMostMaxEntries == Len(cache) <= maxEntries

\* C5: when inserting a new key makes the cache exceed maxEntries, the entry
\* evicted is the one inserted earliest among those present, and a key stays in
\* the cache until it expires or maxEntries newer keys have been inserted.
C5_FifoEviction ==
    [][(lastOp'.op = "check" /\ lastOp'.result) =>
        LET pre == Unexpired(cache, now)
            new == [key |-> lastOp'.key, timestamp |-> now]
        IN  /\ Len(pre) + 1 > maxEntries => cache' = Append(Tail(pre), new)
            /\ Len(pre) + 1 <= maxEntries => cache' = Append(pre, new)
            /\ \A k \in Keys :
                  (/\ lastTrue'[k] # NoTime
                   /\ now - lastTrue'[k] <= ttlMs
                   /\ admittedSince'[k] < maxEntries) => Has(cache', k)
      ]_vars

\* C6: an entry is observable only while now - insertedAt <= TTL, insertedAt
\* being the time of the call that returned true (a refused call does not
\* refresh it): once more than TTL has elapsed checkAndRemember(key) returns true
\* again and size() no longer counts the entry.
C6_ObservableOnlyWithinTtl ==
    [][/\ \A i \in 1..Len(cache') : cache'[i].timestamp = lastTrue'[cache'[i].key]
       /\ lastOp'.op = "check" =>
             LET at == lastTrue[lastOp'.key]
             IN  /\ (at # NoTime /\ now - at > ttlMs) => lastOp'.result
                 /\ ~lastOp'.result => (at # NoTime /\ now - at <= ttlMs)
       /\ lastOp'.op = "size" =>
             /\ lastOp'.count =
                  Cardinality({k \in Keys : /\ Has(cache, k)
                                            /\ now - lastTrue[k] <= ttlMs})
             /\ Len(cache') = lastOp'.count
      ]_vars

\* a key re-admitted once more than TTL has elapsed since it was admitted, no
\* other key having been admitted in between
C6_Witness ==
    /\ lastOp.op = "check"
    /\ lastOp.result
    /\ lastOp.prevTrueAt # NoTime
    /\ now - lastOp.prevTrueAt > ttlMs
    /\ lastOp.between = 0

(***************************************************************************)
(* Properties of the distributor                                           *)
(***************************************************************************)

RECURSIVE SumSeq(_)
SumSeq(q) == IF Len(q) = 0 THEN 0 ELSE Head(q) + SumSeq(Tail(q))

\* the pubIds of the activity messages in a sequence of messages, in order
RECURSIVE ActivityIds(_)
ActivityIds(q) ==
    IF Len(q) = 0 THEN <<>>
    ELSE IF Head(q).type = "activity"
         THEN <<Head(q).payload.pubId>> \o ActivityIds(Tail(q))
         ELSE ActivityIds(Tail(q))

Occurrences(q, n) == Cardinality({i \in 1..Len(q) : q[i] = n})

RECURSIVE DeliveredTo(_, _, _)
DeliveredTo(s, n, es) ==
    IF es = {} THEN 0
    ELSE LET e == CHOOSE x \in es : TRUE
         IN  Occurrences(ActivityIds(s[e]), n) + DeliveredTo(s, n, es \ {e})

\* how many activity messages carrying publish n have been posted, over all endpoints
DeliveredCount(s, n) == DeliveredTo(s, n, Endpoints)

InBacklogCount(b, n) == Cardinality({i \in 1..Len(b) : b[i].pubId = n})

StrictlyIncreasing(q) == \A i, j \in 1..Len(q) : i < j => q[i] < q[j]

\* C7: under any interleaving of register, unregister and publish, every
\* published activity is at every moment either in the backlog or has been sent
\* to exactly one worker (never both, never to two, never twice); it goes to the
\* backlog iff the registry is empty at publish time, and when a worker
\* registers every backlog entry is sent exactly once.
C7_ExactlyOneDestination ==
    [][/\ \A n \in 1..published' :
              InBacklogCount(backlog', n) + DeliveredCount(sent', n) = 1
       /\ published' = published + 1 =>
              (Len(workerPorts) = 0 <=> InBacklogCount(backlog', published') = 1)
       /\ Len(workerPorts') > Len(workerPorts) =>
              /\ backlog' = <<>>
              /\ \A i \in 1..Len(backlog) :
                     /\ DeliveredCount(sent, backlog[i].pubId) = 0
                     /\ DeliveredCount(sent', backlog[i].pubId) = 1
      ]_vars

\* an activity went through the backlog to a worker, the worker was
\* unregistered, and a later activity waits in the backlog
C7_Witness ==
    /\ drained >= 1
    /\ Len(workerPorts) = 0
    /\ Len(backlog) >= 1
    /\ \E e \in Endpoints : Len(ActivityIds(sent[e])) >= 2

C9_BacklogFlushedInOrder ==
    [][/\ (published' = published + 1 /\ Len(workerPorts) = 0) =>
              /\ Len(backlog') = Len(backlog) + 1
              /\ SubSeq(backlog', 1, Len(backlog)) = backlog
              /\ backlog'[Len(backlog')].pubId = published'
              /\ sent' = sent
       /\ Len(workerPorts') > Len(workerPorts) =>
              /\ backlog' = <<>>
              /\ \A e \in Endpoints :
                     SubSeq(sent'[e], 1, Len(sent[e])) = sent[e]
              /\ \A i \in 1..Len(backlog) :
                     \E e \in Endpoints : \E j \in (Len(sent[e]) + 1)..Len(sent'[e]) :
                         sent'[e][j] = ActivityMsg(backlog[i])
       /\ \A e \in Endpoints : StrictlyIncreasing(ActivityIds(sent'[e]))
       /\ StrictlyIncreasing([i \in 1..Len(backlog') |-> backlog'[i].pubId])
      ]_vars

\* two activities were drained from the backlog by a register call and a third
\* one, published afterwards, followed them to the same worker
C9_Witness ==
    /\ drained >= 2
    /\ backlog = <<>>
    /\ \E e \in Endpoints : ActivityIds(sent[e]) = <<1, 2, 3>>

\* the entries of the registry wp registered under id
EntriesOf(wp, id) == SelectSeq(wp, LAMBDA w : w.id = id)

\* the endpoint e belongs to an entry of the registry wp
Registered(wp, e) == \E i \in 1..Len(wp) : wp[i].endpoint = e

\* an entry of id has been taken out of the registry in this step
UnregisteredNow(id) ==
    /\ Len(workerPorts') = Len(workerPorts) - 1
    /\ Len(EntriesOf(workerPorts', id)) = Len(EntriesOf(workerPorts, id)) - 1

\* C20: after unregister(id) returns the registry contains no worker with that
\* id while the other workers stay registered, and the messages sent before
\* the call are not recalled; afterwards no published or backlog-drained
\* activity is sent to it: a message is only ever sent to an endpoint that is
\* registered at that moment, behind the messages it was sent before.
C20_UnregisteredWorkerGetsNothing ==
    [][/\ \A id \in WorkerIds :
             UnregisteredNow(id) =>
                /\ EntriesOf(workerPorts', id) = <<>>
                /\ \A other \in WorkerIds \ {id} :
                       EntriesOf(workerPorts', other) = EntriesOf(workerPorts, other)
                /\ sent' = sent
                /\ backlog' = backlog
       /\ \A e \in Endpoints :
             /\ Len(sent'[e]) >= Len(sent[e])
             /\ SubSeq(sent'[e], 1, Len(sent[e])) = sent[e]
             /\ sent'[e] # sent[e] => Registered(workerPorts', e)]_vars

\* the number of shutdown messages in a sequence of messages
ShutdownCount(q) == Cardinality({i \in 1..Len(q) : q[i].type = "shutdown"})

\* C21: broadcastShutdown sends exactly one shutdown message to every sink
\* registered at the time of the call and to no other sink; it sends nothing
\* else and leaves the registry as it is.
C21_OneShutdownPerRegisteredSink ==
    [][shutdowns' = shutdowns + 1 =>
          /\ workerPorts' = workerPorts
          /\ \A e \in Endpoints :
                /\ Len(sent'[e]) >= Len(sent[e])
                /\ SubSeq(sent'[e], 1, Len(sent[e])) = sent[e]
                /\ ActivityIds(sent'[e]) = ActivityIds(sent[e])
                /\ ShutdownCount(sent'[e]) - ShutdownCount(sent[e])
                      = IF Registered(workerPorts, e) THEN 1 ELSE 0]_vars

(***************************************************************************)
(* Properties of the pipeline                                              *)
(***************************************************************************)

\* publish n has been sent to a worker
Delivered(n) == DeliveredCount(sent, n) >= 1

\* C1: when the feed returns the same activity (same transactionHash, hence
\* the same dedup key) in two or more poll cycles, only one delivery to a
\* worker results: no two publishes of one key made in different poll cycles
\* are both delivered.
C1_OneDeliveryAcrossCycles ==
    \A i, j \in 1..Len(publishLog) :
        (/\ i < j
         /\ publishLog[i].key = publishLog[j].key
         /\ publishLog[i].cycle # publishLog[j].cycle)
        => ~(Delivered(publishLog[i].pubId) /\ Delivered(publishLog[j].pubId))

(***************************************************************************)
(* Properties of the executor worker                                       *)
(***************************************************************************)

\* the dequeue loop takes nothing from the local queue in this step
NothingDequeued ==
    /\ Len(localQueue') >= Len(localQueue)
    /\ inFlight' = inFlight \/ inFlight' = <<>>

\* C10: once a worker has handled a shutdown message, at whatever point of its
\* life (before its start-up has completed included), no flusher timer is
\* armed, and its dequeue loop takes no further activity: it exits when the
\* activity being executed is finished.
C10_ShutdownStopsFlusherAndLoop ==
    /\ [](shutdownSeen => aggregationTimer = "null")
    /\ [][shutdownSeen => NothingDequeued]_vars

\* C11: with paper trading enabled the paper trader replaces the live order
\* path for every execution, direct or aggregated: postOrder, the external
\* order-submission client, is never called.
C11_PaperTradingNeverPostsOrders ==
    paperTradingEnabled => orders = <<>>

\* the calls of postOrder made for exactly these contributions
OrdersOf(trades) == {i \in 1..Len(orders) : orders[i].trades = trades}

\* the calls of postOrder in which message m is represented
OrdersWith(m) ==
    {i \in 1..Len(orders) :
        \E k \in 1..Len(orders[i].trades) : orders[i].trades[k].msgId = m}

\* the record is waiting for its turn in the flush in progress
AwaitingSubmission(agg) == \E j \in 1..Len(flushing) : flushing[j] = agg

\* C12: a record with contributions A1..An that left the buffer at its window
\* expiry is submitted as exactly one synthetic order carrying all of them
\* iff its summed usdcSize is at least TRADE_AGGREGATION_MIN_TOTAL_USD (until
\* then it waits in the flush in progress), otherwise nothing of it is
\* submitted; and no activity is represented in two submitted orders.
C12_AllOrNothingOnce ==
    /\ \A i \in 1..Len(removed) :
           LET agg == removed[i].agg
           IN  IF agg.totalUsdcSize >= TRADE_AGGREGATION_MIN_TOTAL_USD
               THEN AwaitingSubmission(agg) \/ Cardinality(OrdersOf(agg.trades)) = 1
               ELSE OrdersOf(agg.trades) = {}
    /\ \A m \in 1..received : Cardinality(OrdersWith(m)) <= 1

\* the dequeue loop ends only once isRunning is false, and the flusher timer is
\* cleared only by a shutdown message
LoopAndFlusherSurvive ==
    /\ (loopPc # "exited" /\ loopPc' = "exited") => ~isRunning'
    /\ (aggregationTimer = "armed" /\ aggregationTimer' = "null") => shutdownSeen'
    /\ (startPc = "started") => startPc' = "started"

\* the records taken for a flush leave it one at a time, each when its own
\* execution has ended
FlushGoesRecordByRecord ==
    flushing # <<>> => (flushing' = flushing \/ flushing' = Tail(flushing))

\* C14: an exception thrown while one activity is executed (a fetch or
\* postOrder throws) is caught: it ends neither the dequeue loop nor the
\* flusher, and every other activity already accepted for execution is still
\* executed, the records waiting in the flush in progress included.
C14_ExceptionsAreContained ==
    [][LoopAndFlusherSurvive /\ FlushGoesRecordByRecord]_vars

\* C15: on one worker at most one aggregation flush is in progress at any
\* time: while a flush is still waiting for its submissions, no step, a tick
\* of the flusher included, takes a record out of the buffer or starts another
\* flush; the flush in progress only moves on through its own records.
C15_FlushesAreSerialised ==
    [][aggregationFlushInProgress =>
          /\ removed' = removed
          /\ \A i \in 1..Len(tradeAggregationBuffer) :
                BufferIndex(tradeAggregationBuffer', tradeAggregationBuffer[i].key) # 0
          /\ \/ flushing' = flushing
             \/ flushing' = Tail(flushing)
             \/ flushing' = <<>>]_vars

\* a tick is due while a flush waits for its order and a record whose window
\* has ended sits in the buffer
C15_Witness ==
    /\ aggregationFlushInProgress
    /\ isRunning
    /\ aggregationTimer = "armed"
    /\ flushing # <<>>
    /\ \E i \in 1..Len(tradeAggregationBuffer) :
          WindowElapsed(tradeAggregationBuffer[i], now)

\* the window of TRADE_AGGREGATION_WINDOW_SECONDS has passed for a record
\* created at time first when the clock shows t
WindowOver(first, t) == t - first >= TRADE_AGGREGATION_WINDOW_SECONDS * MsPerSecond

\* C16: a buffered aggregation record leaves the buffer (submitted or dropped)
\* only at a flusher tick where now - firstTradeTime >= windowSeconds * 1000,
\* never earlier; a record gets its firstTradeTime when its first contribution
\* creates it and keeps it as long as it stays in the buffer, whatever is
\* contributed later.
C16_FlushedOnlyAfterTheWindow ==
    [][/\ \A i \in 1..Len(tradeAggregationBuffer) :
             LET agg == tradeAggregationBuffer[i]
                 j == BufferIndex(tradeAggregationBuffer', agg.key)
             IN  IF j = 0
                 THEN /\ WindowOver(agg.firstTradeTime, now)
                      /\ aggregationTimer = "armed"
                      /\ Len(removed') > Len(removed)
                      /\ now' = now
                 ELSE tradeAggregationBuffer'[j].firstTradeTime = agg.firstTradeTime
       /\ \A j \in 1..Len(tradeAggregationBuffer') :
             BufferIndex(tradeAggregationBuffer, tradeAggregationBuffer'[j].key) = 0
                => tradeAggregationBuffer'[j].firstTradeTime = now]_vars

\* a record to which a second activity was contributed half a window after
\* the first has left the buffer exactly when the window of the first ended
C16_Witness ==
    \E i \in 1..Len(removed) :
        /\ removed[i].at - removed[i].agg.firstTradeTime
              = TRADE_AGGREGATION_WINDOW_SECONDS * MsPerSecond
        /\ removed[i].agg.lastTradeTime > removed[i].agg.firstTradeTime
        /\ Len(removed[i].agg.trades) >= 2

\* the activity of message m is a contribution of a record of buf
InBuffer(buf, m) ==
    \E i \in 1..Len(buf) : \E k \in 1..Len(buf[i].trades) : buf[i].trades[k].msgId = m

\* C17: with aggregation enabled a dequeued activity enters the aggregation
\* buffer iff its side is BUY and its usdcSize is strictly below the minimum;
\* every SELL and every BUY at or above the minimum is handed to doTrading at
\* once without entering the buffer; only dequeued activities enter the
\* buffer, and with aggregation disabled nothing is ever buffered.
C17_OnlySmallBuysAreBuffered ==
    [][LET taken == IF Len(localQueue') < Len(localQueue)
                    THEN SubSeq(localQueue, 1, Len(localQueue) - Len(localQueue'))
                    ELSE <<>>
       IN  /\ ~tradeAggregationEnabled => tradeAggregationBuffer' = <<>>
           /\ \A k \in 1..Len(taken) :
                 /\ InBuffer(tradeAggregationBuffer', taken[k].msgId)
                       <=> /\ tradeAggregationEnabled
                           /\ taken[k].side = BUY
                           /\ taken[k].usdcSize < TRADE_AGGREGATION_MIN_TOTAL_USD
                 /\ ~InBuffer(tradeAggregationBuffer', taken[k].msgId)
                       => /\ inFlight' = <<taken[k]>>
                          /\ loopPc' = "trading"
           /\ \A i \in 1..Len(tradeAggregationBuffer') :
                 \A k \in 1..Len(tradeAggregationBuffer'[i].trades) :
                    LET m == tradeAggregationBuffer'[i].trades[k].msgId
                    IN  \/ InBuffer(tradeAggregationBuffer, m)
                        \/ \E n \in 1..Len(taken) : taken[n].msgId = m]_vars

\* a small BUY waits in the buffer while a BUY of exactly the minimum, taken
\* from the queue after it, is being executed directly
C17_Witness ==
    /\ tradeAggregationEnabled
    /\ tradeAggregationBuffer # <<>>
    /\ loopPc = "trading"
    /\ Len(inFlight) = 1
    /\ inFlight[1].side = BUY
    /\ inFlight[1].usdcSize = TRADE_AGGREGATION_MIN_TOTAL_USD
    /\ \A i \in 1..Len(tradeAggregationBuffer) :
          \A k \in 1..Len(tradeAggregationBuffer[i].trades) :
             tradeAggregationBuffer[i].trades[k].msgId < inFlight[1].msgId

\* the sum of usdcSize over trades
RECURSIVE SumUsdcSize(_)
SumUsdcSize(trades) ==
    IF Len(trades) = 0 THEN 0
    ELSE trades[1].usdcSize + SumUsdcSize(Tail(trades))

\* the sum of usdcSize * price over trades
RECURSIVE SumUsdcTimesPrice(_)
SumUsdcTimesPrice(trades) ==
    IF Len(trades) = 0 THEN 0
    ELSE trades[1].usdcSize * trades[1].price + SumUsdcTimesPrice(Tail(trades))

\* total is the sum of the contributions and, when it is positive, the
\* fraction average equals the usdcSize-weighted mean of their prices
WeightedRight(trades, total, average) ==
    /\ total = SumUsdcSize(trades)
    /\ total > 0 =>
          average.num * SumUsdcSize(trades) = SumUsdcTimesPrice(trades) * average.den

\* C18: in every reachable state each aggregation record, in the buffer, taken
\* out of it or being submitted, has totalUsdcSize equal to the sum of the
\* usdcSize of its contributing activities and, when that is positive,
\* averagePrice equal to the sum of usdcSize * price divided by the sum of
\* usdcSize; an aggregated order carries these two values.
C18_TotalsAndWeightedAverage ==
    /\ \A i \in 1..Len(tradeAggregationBuffer) :
          WeightedRight(tradeAggregationBuffer[i].trades,
                        tradeAggregationBuffer[i].totalUsdcSize,
                        tradeAggregationBuffer[i].averagePrice)
    /\ \A i \in 1..Len(flushing) :
          WeightedRight(flushing[i].trades, flushing[i].totalUsdcSize,
                        flushing[i].averagePrice)
    /\ \A i \in 1..Len(removed) :
          WeightedRight(removed[i].agg.trades, removed[i].agg.totalUsdcSize,
                        removed[i].agg.averagePrice)
    /\ \A i \in 1..Len(orders) :
          orders[i].kind = "aggregated"
             => WeightedRight(orders[i].trades, orders[i].usdcSize, orders[i].price)

\* BUYs of 0.40 at 0.5, 0.30 at 0.6 and 0.40 at 0.5 have been submitted as one
\* order of 1.10 at 0.58 / 1.10
C18_Witness ==
    \E i \in 1..Len(orders) :
        /\ orders[i].kind = "aggregated"
        /\ Len(orders[i].trades) = 3
        /\ orders[i].trades[1].usdcSize = 40 /\ orders[i].trades[1].price = 50
        /\ orders[i].trades[2].usdcSize = 30 /\ orders[i].trades[2].price = 60
        /\ orders[i].trades[3].usdcSize = 40 /\ orders[i].trades[3].price = 50
        /\ orders[i].usdcSize = 110
        /\ orders[i].price = [num |-> 5800, den |-> 110]

\* C19: each worker receives activities in the order the monitor published
\* them: the publishes are numbered in feed order within a response and in
\* the order of the responses and cycles, and for every worker the sequence of
\* the activities sent to it, those that passed through the backlog included,
\* is a subsequence of that publish sequence.
C19_WorkerSeesPublishOrder ==
    /\ \A n \in 1..Len(publishLog) : publishLog[n].pubId = n
    /\ \A m, n \in 1..Len(publishLog) :
          m < n => /\ publishLog[m].cycle <= publishLog[n].cycle
                   /\ publishLog[m].fetch <= publishLog[n].fetch
                   /\ publishLog[m].fetch = publishLog[n].fetch
                         => publishLog[m].index < publishLog[n].index
    /\ \A e \in Endpoints :
          /\ StrictlyIncreasing(ActivityIds(sent[e]))
          /\ \A k \in 1..Len(sent[e]) :
                sent[e][k].type = "activity" =>
                   /\ sent[e][k].payload.pubId \in 1..Len(publishLog)
                   /\ BuildActivityDedupKey(sent[e][k].payload)
                         = publishLog[sent[e][k].payload.pubId].key

\* a worker was sent the first publish out of the backlog when it registered
\* and then the second one, made in a later cycle
C19_Witness ==
    /\ drained = 1
    /\ Len(publishLog) = 2
    /\ publishLog[1].cycle < publishLog[2].cycle
    /\ \E e \in Endpoints : ActivityIds(sent[e]) = <<1, 2>>

(***************************************************************************)
(* Properties of the monitor                                               *)
(***************************************************************************)

\* how many entries of a sequence of outcomes are o
CountOutcome(q, o) == Cardinality({i \in 1..Len(q) : q[i] = o})

RECURSIVE SentTo(_, _)
SentTo(s, es) ==
    IF es = {} THEN 0
    ELSE LET e == CHOOSE x \in es : TRUE
         IN  Len(ActivityIds(s[e])) + SentTo(s, es \ {e})

\* the activities that have left the monitor: sent to a worker or in the backlog
HandedOver(s, b) == SentTo(s, Endpoints) + Len(b)

\* the monitor has processed a feed response in this step
ResponseProcessed == fetches' = fetches + 1 /\ fed' > fed

ErrorCaught == fetchError' /\ (fetches' # fetches \/ monitorPc' # monitorPc)

\* C22: a fetch or processing error for one leader address skips only that
\* address for the current cycle: the next address, if there is one, is polled
\* in the same cycle, and after the last address the loop goes on to its pause
\* before the next cycle (or ends, if a stop was requested); the error neither
\* stops the monitor nor starts another cycle.
C22_ErrorSkipsOneAddress ==
    [][ErrorCaught =>
          /\ cycleCount' = cycleCount
          /\ monitorIsRunning' = monitorIsRunning
          /\ addressIndex < Len(USER_ADDRESSES) =>
                /\ addressIndex' = addressIndex + 1
                /\ monitorPc' = "fetch"
          /\ addressIndex = Len(USER_ADDRESSES) =>
                monitorPc' = IF monitorIsRunning THEN "sleep" ELSE "stopped"]_vars

\* processing the response for the first address threw after an activity had
\* been published, and the second address is being polled in the same cycle
C22_Witness ==
    /\ fetchError
    /\ monitorPc = "fetch"
    /\ addressIndex = 2
    /\ cycleCount = 1
    /\ CountOutcome(outcomes, "published") >= 1

\* C23: after stopTradeMonitor() is called the monitor loop terminates: no new
\* poll cycle is started and the flag stays down, the cycle in progress may
\* run to its end, and the loop is left.
C23_StopEndsTheLoop ==
    /\ [][~monitorIsRunning => /\ ~monitorIsRunning'
                               /\ cycleCount' = cycleCount
                               /\ monitorPc = "stopped" => monitorPc' = "stopped"]_vars
    /\ (~monitorIsRunning ~> monitorPc = "stopped")

\* a stop was requested during the first cycle or the pause after it: every
\* address of that cycle has been polled, no second cycle was started and the
\* loop has been left
C23_Witness ==
    /\ ~monitorIsRunning
    /\ monitorPc = "stopped"
    /\ cycleCount = 1
    /\ addressIndex = Len(USER_ADDRESSES)
    /\ fetches = Len(USER_ADDRESSES)

\* the activity of the feed as the monitor hands it to buildActivityDedupKey
\* when it polls address
AsQueued(activity, address) ==
    QueueActivity(activity, NormaliseTimestamp(activity.timestamp), address)

\* x and y agree on the components the dedup key is joined from
SameComponents(x, y) ==
    /\ x.userAddress = y.userAddress
    /\ x.conditionId = y.conditionId
    /\ x.timestamp = y.timestamp
    /\ x.side = y.side
    /\ x.usdcSize = y.usdcSize
    /\ x.price = y.price

\* C24: two activities that have no transactionHash and agree on userAddress,
\* conditionId, normalised timestamp, side, usdcSize and price yield the same
\* dedup key, and activities that differ in any of these yield different keys;
\* so of two such activities that agree, the second one seen within the TTL is
\* dropped: no key is published twice within ttlMs.
C24_NoHashKeyFromComponents ==
    /\ \A a, b \in feed : \A i, j \in 1..Len(USER_ADDRESSES) :
          LET x == AsQueued(a, USER_ADDRESSES[i])
              y == AsQueued(b, USER_ADDRESSES[j])
          IN  (~Truthy(a.transactionHash) /\ ~Truthy(b.transactionHash)) =>
                 (SameComponents(x, y)
                     <=> BuildActivityDedupKey(x) = BuildActivityDedupKey(y))
    /\ \A m, n \in 1..Len(publishLog) :
          (m < n /\ publishLog[m].key = publishLog[n].key)
             => publishLog[n].at - publishLog[m].at > ttlMs

\* the feed, which reports activities without a transactionHash only, has
\* reported one of them twice in a response: the first was published and the
\* second, agreeing with it in every component, was dropped as a duplicate
C24_Witness ==
    /\ \A a \in feed : ~Truthy(a.transactionHash)
    /\ Len(publishLog) = 1
    /\ Len(publishLog[1].key) > 0
    /\ outcomes = <<"published", "duplicate">>
    /\ now - publishLog[1].at <= ttlMs


(***************************************************************************)
(* Properties of the paper trader                                          *)
(***************************************************************************)

\* the loop hands one activity to the paper trader in this step
PaperStep == Len(paperLog') = Len(paperLog) + 1

\* the activity the paper trader was handed in this step
PaperTrade == paperLog'[Len(paperLog')].trade

\* what executeTrade returned in this step
PaperExecuted == paperLog'[Len(paperLog')].executed

\* the size the paper trader holds of a market, 0 when it has no position
HeldSize(pt, cid) ==
    IF PositionIndex(pt.positions, cid) = 0 THEN 0
    ELSE pt.positions[PositionIndex(pt.positions, cid)].size

\* C25: a BUY whose usdcSize exceeds the balance, and a SELL of a market with no
\* position or of more than the position holds, make executeTrade return false
\* with the balance and the positions as they were; the executor places no
\* order for it and its loop, unless the worker was stopped, goes on with the
\* next queued activity.
C25_RefusedTradeChangesNothing ==
    [][PaperStep =>
          LET t == PaperTrade
              refused ==
                  \/ t.side = BUY /\ t.usdcSize > paperTrader.balance
                  \/ /\ t.side # BUY
                     /\ \/ PositionIndex(paperTrader.positions, t.conditionId) = 0
                        \/ t.size > HeldSize(paperTrader, t.conditionId)
          IN  refused =>
                  /\ ~PaperExecuted
                  /\ paperTrader' = paperTrader
                  /\ orders' = orders
                  /\ isRunning =>
                         /\ loopPc' \in {"trading", "sleeping"}
                         /\ Len(localQueue) > 0 =>
                                Len(localQueue') < Len(localQueue)]_vars

\* a BUY was accepted, a part of it was sold, and a SELL of more than the rest
\* was refused: the position is as the first SELL left it, no order was placed
\* and the loop waits for the next activity
C25_Witness ==
    /\ Len(paperLog) = 3
    /\ paperLog[1].executed /\ paperLog[1].trade.side = BUY
    /\ paperLog[2].executed /\ paperLog[2].trade.side = SELL
    /\ ~paperLog[3].executed /\ paperLog[3].trade.side = SELL
    /\ HeldSize(paperTrader, paperLog[3].trade.conditionId) > 0
    /\ HeldSize(paperTrader, paperLog[3].trade.conditionId) < paperLog[3].trade.size
    /\ Len(orders) = 0
    /\ isRunning
    /\ loopPc = "sleeping"

\* the sum of the invested amounts of the positions
RECURSIVE SumInvested(_)
SumInvested(positions) ==
    IF Len(positions) = 0 THEN 0
    ELSE Head(positions).invested + SumInvested(Tail(positions))

\* the balance plus everything invested
Worth(pt) == pt.balance + SumInvested(pt.positions)

\* C26: the paper trader starts with a balance that is not negative and is
\* handed amounts that are not negative; an accepted BUY leaves the balance
\* plus the sum of invested over all positions as it was, and the balance is
\* never negative.
C26_BuyConservesWorth ==
    [][/\ paperTrader.balance >= 0 => paperTrader'.balance >= 0
       /\ PaperStep /\ PaperExecuted /\ PaperTrade.side = BUY =>
              /\ PaperTrade.usdcSize >= 0
              /\ paperTrader'.balance = paperTrader.balance - PaperTrade.usdcSize
              /\ Worth(paperTrader') = Worth(paperTrader)]_vars

\* two BUYs on two markets were accepted and used the balance up
C26_Witness ==
    /\ Len(paperLog) = 2
    /\ \A i \in 1..2 : paperLog[i].executed /\ paperLog[i].trade.side = BUY
    /\ Len(paperTrader.positions) = 2
    /\ paperTrader.balance = 0
    /\ Worth(paperTrader) = PAPER_TRADING_BALANCE_USD

\* the position the paper trader holds of a market
PositionOf(pt, cid) == pt.positions[PositionIndex(pt.positions, cid)]

\* C27: an accepted SELL, of a part of a position or of all of it, raises the
\* balance plus the sum of invested over all positions by exactly usdcSize
\* minus size times the avgPrice the position had before the sale.
C27_SellRealisesTheDifference ==
    [][PaperStep /\ PaperExecuted /\ PaperTrade.side = SELL =>
          LET t == PaperTrade
              avgPrice == PositionOf(paperTrader, t.conditionId).avgPrice
          IN  (Worth(paperTrader') - Worth(paperTrader)) * avgPrice.den
                  = t.usdcSize * avgPrice.den - t.size * avgPrice.num]_vars

\* as C27, for the SELLs that leave nothing of the position
C27_FullSellRealisesTheDifference ==
    [][/\ PaperStep /\ PaperExecuted /\ PaperTrade.side = SELL
       /\ PaperTrade.size = HeldSize(paperTrader, PaperTrade.conditionId)
       => LET t == PaperTrade
              avgPrice == PositionOf(paperTrader, t.conditionId).avgPrice
          IN  (Worth(paperTrader') - Worth(paperTrader)) * avgPrice.den
                  = t.usdcSize * avgPrice.den - t.size * avgPrice.num]_vars

\* C28: every stored position with size > 0 has avgPrice = invested / size,
\* after any sequence of accepted BUYs and SELLs.
C28_AvgPriceIsInvestedOverSize ==
    \A i \in 1..Len(paperTrader.positions) :
        LET p == paperTrader.positions[i]
        IN  p.size > 0 => p.avgPrice.num * p.size = p.invested * p.avgPrice.den

\* as C28, while no position has been sold a part of
C28_AvgPriceAfterBuysAndFullSells ==
    (\A k \in 1..Len(paperLog) :
        paperLog[k].executed /\ paperLog[k].trade.side = SELL =>
            \A i \in 1..Len(paperTrader.positions) :
                paperTrader.positions[i].conditionId # paperLog[k].trade.conditionId)
    => C28_AvgPriceIsInvestedOverSize

\* C29: every stored position has a size that is not negative, and a SELL that
\* brings the size of a position to zero removes the position.
C29_NoNegativeSizeAndEmptyRemoved ==
    [][/\ \A i \in 1..Len(paperTrader'.positions) :
              paperTrader'.positions[i].size >= 0
       /\ PaperStep /\ PaperExecuted /\ PaperTrade.side = SELL
            /\ PaperTrade.size = HeldSize(paperTrader, PaperTrade.conditionId)
          => /\ PositionIndex(paperTrader.positions, PaperTrade.conditionId) > 0
             /\ PositionIndex(paperTrader'.positions, PaperTrade.conditionId) = 0
             /\ Len(paperTrader'.positions) = Len(paperTrader.positions) - 1]_vars

\* a position was bought and sold whole while another stays: only the other is
\* stored
C29_Witness ==
    /\ Len(paperLog) = 3
    /\ \A i \in 1..3 : paperLog[i].executed
    /\ paperLog[3].trade.side = SELL
    /\ Len(paperTrader.positions) = 1
    /\ PositionIndex(paperTrader.positions, paperLog[3].trade.conditionId) = 0

(***************************************************************************)
(* Properties of the timestamp normalisation                               *)
(***************************************************************************)

\* every outcome so far is o
AllOutcomes(o) == \A i \in 1..Len(outcomes) : outcomes[i] = o

\* every activity published so far carries the timestamp ms
PublishedWithTimestamp(ms) ==
    /\ Len(backlog) = Len(publishLog)
    /\ \A i \in 1..Len(backlog) : backlog[i].timestamp = ms

\* C30: a numeric timestamp of exactly the threshold (10^12 in the code) is
\* taken for seconds and multiplied by 1000, one of the threshold plus one is
\* taken for milliseconds and kept; an activity whose timestamp normalises to
\* 0, cannot be parsed or is missing is dropped and never published.
C30_ThresholdAndUnknownTimestamps ==
    \A a \in feed :
        LET t == a.timestamp
        IN  /\ t.kind = "number" /\ t.v = MsThreshold =>
                  /\ PublishedWithTimestamp(MsThreshold * MsPerSecond)
                  /\ \A i \in 1..Len(outcomes) : outcomes[i] # "tooOld"
            /\ t.kind = "number" /\ t.v = MsThreshold + 1 =>
                  /\ PublishedWithTimestamp(MsThreshold + 1)
                  /\ tooOldSeconds = TooOldNever =>
                         \A i \in 1..Len(outcomes) : outcomes[i] # "tooOld"
                  /\ tooOldSeconds # TooOldNever => AllOutcomes("tooOld")
            /\ \/ t.kind = "number" /\ t.v = 0
               \/ t.kind = "string" /\ (~t.valid \/ t.v = 0)
               \/ t.kind = "missing"
               => /\ AllOutcomes("tooOld")
                  /\ Len(publishLog) = 0
                  /\ Len(backlog) = 0

\* the activity with the threshold as its timestamp was published, as a time
\* far in the future, although TOO_OLD_SECONDS is small
C30_Witness ==
    /\ \E a \in feed : a.timestamp.kind = "number" /\ a.timestamp.v = MsThreshold
    /\ tooOldSeconds \in TooOldSecondsChoices
    /\ Len(backlog) > 0
    /\ backlog[1].timestamp = MsThreshold * MsPerSecond
    /\ backlog[1].timestamp > now
    /\ CountOutcome(outcomes, "published") >= 1

\* an activity whose timestamp Date.parse reads as 0 was fed twice and dropped
\* twice, although TOO_OLD_SECONDS lets every age through
C30_DroppedWitness ==
    /\ \E a \in feed : a.timestamp = [kind |-> "string", valid |-> TRUE, v |-> 0]
    /\ tooOldSeconds = TooOldNever
    /\ outcomes = <<"tooOld", "tooOld">>
    /\ Len(publishLog) = 0

\* the activity with the threshold plus one as its timestamp was published with
\* that timestamp
C30_MillisecondsWitness ==
    /\ \E a \in feed : a.timestamp.kind = "number" /\ a.timestamp.v = MsThreshold + 1
    /\ Len(backlog) > 0
    /\ backlog[1].timestamp = MsThreshold + 1

(***************************************************************************)
(* Properties of the age filter                                            *)
(***************************************************************************)

\* C31: an activity is dropped by the age filter exactly when now minus its
\* time is strictly greater than tooOldSeconds * 1000; one whose age is the
\* threshold is kept and goes on to the dedup test.
C31_DroppedOnlyWhenStrictlyOlder ==
    [][\A a \in feed :
          \A i \in (Len(outcomes) + 1)..Len(outcomes') :
              /\ outcomes'[i] = "tooOld" <=>
                     now - a.timestamp.v > tooOldSeconds * MsPerSecond
              /\ outcomes'[i] # "tooOld" =>
                     outcomes'[i] \in {"published", "duplicate"}]_vars

\* an activity whose age was the threshold to the millisecond was published
C31_Witness ==
    /\ Len(publishLog) > 0
    /\ Len(backlog) > 0
    /\ publishLog[1].at - backlog[1].timestamp = tooOldSeconds * MsPerSecond
    /\ outcomes[1] = "published"

(***************************************************************************)
(* Properties of the round robin                                           *)
(***************************************************************************)

\* the index after k selections among size entries, starting from index
RECURSIVE IndexAfter(_, _, _)
IndexAfter(index, size, k) ==
    IF k = 0 THEN index ELSE IndexAfter((index + 1) % size, size, k - 1)

\* of the activities queue, drained one by one among the entries of registry
\* starting from index, the messages that go to endpoint e
RECURSIVE DrainedTo(_, _, _, _)
DrainedTo(queue, registry, index, e) ==
    IF Len(queue) = 0 THEN <<>>
    ELSE LET size == Len(registry)
             here == IF registry[(index % size) + 1].endpoint = e
                     THEN <<ActivityMsg(Head(queue))>> ELSE <<>>
         IN  here \o DrainedTo(Tail(queue), registry, (index + 1) % size, e)

C32_DrainWitness ==
    /\ Len(backlog) > 0
    /\ roundRobinIndex = 1

(***************************************************************************)
(* Properties of the dequeue loop                                          *)
(***************************************************************************)

\* the arrival numbers of the activities of the calls of postOrder made for
\* one activity
DirectIds(os) ==
    LET direct == SelectSeq(os, LAMBDA o : o.kind = "direct")
    IN  [i \in 1..Len(direct) |-> direct[i].trades[1].msgId]

\* C33: on one worker at most one direct execution is under way at a time and
\* the executions follow the order of arrival: an activity is taken from the
\* local queue only while none is being executed or in the step that ends the
\* execution under way, whether it completed or failed; everything still queued
\* arrived after the one being executed.
C33_DirectExecutionsInTurn ==
    [][/\ Len(inFlight') <= 1
       /\ loopPc' = "trading" <=> Len(inFlight') = 1
       /\ Len(inFlight') = 1 =>
              \A i \in 1..Len(localQueue') :
                  localQueue'[i].msgId > inFlight'[1].msgId
       /\ Len(inFlight) = 1 /\ Len(inFlight') = 1 /\ inFlight' # inFlight =>
              inFlight'[1].msgId > inFlight[1].msgId
       /\ Len(inFlight) = 1 /\ Len(localQueue') < Len(localQueue) =>
              \/ inFlight' = <<>>
              \/ Len(inFlight') = 1 /\ inFlight'[1].msgId > inFlight[1].msgId
       /\ StrictlyIncreasing(DirectIds(orders'))
       /\ StrictlyIncreasing([i \in 1..Len(paperLog') |-> paperLog'[i].trade.msgId])
      ]_vars

\* the first activity to arrive was executed and its order placed, the second
\* is being executed, and a third waits in the local queue
C33_Witness ==
    /\ DirectIds(orders) = <<1>>
    /\ loopPc = "trading"
    /\ Len(inFlight) = 1
    /\ inFlight[1].msgId = 2
    /\ Len(localQueue) = 1
    /\ localQueue[1].msgId = 3

(***************************************************************************)
(* Properties of the backlog                                               *)
(***************************************************************************)

\* C34: whatever the sequence of register, unregister, publish and
\* broadcastShutdown, a backlog that is not empty goes with an empty registry;
\* so the register that finds a backlog is the first of a registry, and all of
\* the backlog goes to the worker it registers.
C34_BacklogOnlyWithoutWorkers ==
    [][/\ Len(backlog') > 0 => Len(workerPorts') = 0
       /\ Len(workerPorts') > Len(workerPorts) /\ Len(backlog) > 0 =>
              /\ Len(workerPorts) = 0
              /\ Len(backlog') = 0
              /\ LET e == workerPorts'[1].endpoint
                 IN  /\ sent'[e] = sent[e] \o
                            [i \in 1..Len(backlog) |-> ActivityMsg(backlog[i])]
                     /\ \A o \in Endpoints \ {e} : sent'[o] = sent[o]]_vars

\* two activities waited in the backlog, a worker registered and was sent both;
\* then a second worker registered and was sent nothing
C34_Witness ==
    /\ drained = 2
    /\ Len(workerPorts) = 2
    /\ workerPorts[1].endpoint # workerPorts[2].endpoint
    /\ Len(sent[workerPorts[1].endpoint]) = 2
    /\ Len(sent[workerPorts[2].endpoint]) = 0
    /\ Len(backlog) = 0

(***************************************************************************)
(* Properties of broadcastShutdown                                         *)
(***************************************************************************)

\* C35: broadcastShutdown leaves the registry, the round-robin index and the
\* backlog as they were; the workers it told to stop stay registered, and an
\* activity published afterwards is sent to one of them, not put in the backlog.
C35_ShutdownKeepsTheRegistry ==
    [][/\ shutdowns' = shutdowns + 1 =>
              /\ workerPorts' = workerPorts
              /\ roundRobinIndex' = roundRobinIndex
              /\ backlog' = backlog
       /\ published' = published + 1 /\ shutdowns > 0 /\ Len(workerPorts) > 0 =>
              /\ backlog' = backlog
              /\ \E e \in Endpoints :
                     /\ Registered(workerPorts, e)
                     /\ Len(sent'[e]) = Len(sent[e]) + 1
                     /\ sent'[e][Len(sent'[e])].type = "activity"
                     /\ sent'[e][Len(sent'[e])].payload.pubId = published']_vars

\* a worker was told to stop and was sent an activity afterwards, while nothing
\* is in the backlog
C35_Witness ==
    /\ shutdowns = 1
    /\ Len(backlog) = 0
    /\ \E e \in Endpoints :
          /\ Registered(workerPorts, e)
          /\ Len(sent[e]) = 2
          /\ sent[e][1].type = "shutdown"
          /\ sent[e][2].type = "activity"

(***************************************************************************)
(* Properties of a worker that was told to stop                            *)
(***************************************************************************)

\* C36: once a worker has processed a shutdown message its loop takes nothing
\* more from the local queue and its flusher removes nothing more from the
\* aggregation buffer; an activity that arrives afterwards is appended to the
\* local queue and stays there, so it is never executed.
C36_NothingTakenAfterShutdown ==
    [][shutdownSeen =>
          /\ shutdownSeen'
          /\ ~isRunning'
          /\ Len(localQueue') >= Len(localQueue)
          /\ SubSeq(localQueue', 1, Len(localQueue)) = localQueue
          /\ received' = received + 1 =>
                 /\ Len(localQueue') = Len(localQueue) + 1
                 /\ localQueue'[Len(localQueue')].msgId = received'
          /\ tradeAggregationBuffer' = tradeAggregationBuffer
          /\ removed' = removed
          /\ inFlight' = inFlight \/ inFlight' = <<>>
          /\ Len(flushing') <= Len(flushing)]_vars

\* the worker was told to stop with a record in its buffer and an activity in
\* its queue; its loop has ended and both are still there
C36_Witness ==
    /\ shutdownSeen
    /\ startPc = "started"
    /\ loopPc = "exited"
    /\ aggregationTimer = "null"
    /\ Len(localQueue) >= 1
    /\ Len(tradeAggregationBuffer) >= 1
    /\ received = messageBudget

(***************************************************************************)
(* Properties of a buffer that is added to during a flush                  *)
(***************************************************************************)

\* the record of the buffer buf that holds the trade numbered m
RecordOf(buf, m) ==
    buf[CHOOSE i \in 1..Len(buf) :
            \E k \in 1..Len(buf[i].trades) : buf[i].trades[k].msgId = m]

\* the trade numbered m is one of the trades of the record agg
HoldsTrade(agg, m) == \E k \in 1..Len(agg.trades) : agg.trades[k].msgId = m

\* C37: a sub-threshold BUY that is buffered while a record with its key is
\* being submitted goes into a record of the buffer that began after that
\* record's window was over and shares no trade with it; the BUY is in the
\* buffer, the record being submitted is as it was, and no order placed so far
\* changes or holds the BUY.
C37_BufferedDuringFlushStartsAfresh ==
    [][aggregationFlushInProgress =>
          \A m \in 1..received :
              /\ InBuffer(tradeAggregationBuffer', m)
              /\ ~InBuffer(tradeAggregationBuffer, m)
              => LET fresh == RecordOf(tradeAggregationBuffer', m)
                 IN  \A k \in 1..Len(flushing) :
                         flushing[k].key = fresh.key =>
                             /\ flushing'[k] = flushing[k]
                             /\ ~HoldsTrade(flushing[k], m)
                             /\ \A n \in 1..received :
                                    ~(HoldsTrade(flushing[k], n) /\ HoldsTrade(fresh, n))
                             /\ fresh.firstTradeTime >= flushing[k].firstTradeTime
                                    + TRADE_AGGREGATION_WINDOW_SECONDS * MsPerSecond
                             /\ SubSeq(orders', 1, Len(orders)) = orders
                             /\ \A i \in 1..Len(orders') :
                                    ~HoldsTrade(orders'[i], m)]_vars

\* a record is being submitted while the buffer holds a record of the same
\* key with one trade, begun when the window of the first was over
C37_Witness ==
    /\ aggregationFlushInProgress
    /\ Len(flushing) = 1
    /\ Len(tradeAggregationBuffer) = 1
    /\ tradeAggregationBuffer[1].key = flushing[1].key
    /\ Len(tradeAggregationBuffer[1].trades) = 1
    /\ tradeAggregationBuffer[1].firstTradeTime > flushing[1].firstTradeTime

(***************************************************************************)
(* Properties of AsyncActivityQueue                                        *)
(***************************************************************************)

\* the dequeue calls that have returned item
ReturnedBy(item) == {c \in 1..Len(aqCalls) : aqCalls[c].result = item}

\* the item is one of those the queue holds
Held(item) == \E i \in 1..Len(aqQueue) : aqQueue[i] = item

\* C38: under any interleaving of enqueue, dequeue, timeouts and aborts of
\* dequeue calls and close, an item enqueued while the queue was open is
\* either still held in the queue or has been returned by exactly one dequeue
\* call.
C38_NoItemLost ==
    \A item \in aqAccepted :
        /\ Held(item) \/ Cardinality(ReturnedBy(item)) = 1
        /\ ~(Held(item) /\ ReturnedBy(item) # {})

\* as C38, as long as no waiter is left in the list by a dequeue call that has
\* resolved
C38_NoItemLostWithoutStaleWaiters ==
    [][(\A i \in 1..Len(aqWaiters) : ~aqCalls[aqWaiters[i]].settled) =>
           \A item \in aqAccepted' \ aqAccepted :
               Held(item)' \/ Cardinality(ReturnedBy(item)') = 1]_vars

\* C39: the item list and the waiter list are never both non-empty; items are
\* returned in the order they were enqueued; after close() no dequeue call is
\* pending, an enqueue is dropped, and a dequeue returns the oldest item still
\* queued, or null when none is left.
C39_QueueDiscipline ==
    [][/\ ~(Len(aqQueue') > 0 /\ Len(aqWaiters') > 0)
       /\ StrictlyIncreasing(aqReturned')
       /\ StrictlyIncreasing(aqQueue')
       /\ aqClosed' =>
              /\ \A c \in 1..Len(aqCalls') : aqCalls'[c].result # Pending
              /\ Len(aqWaiters') = 0
       /\ aqClosed => aqClosed'
       /\ ~aqClosed /\ aqClosed' =>
              \A c \in 1..Len(aqCalls) :
                  aqCalls[c].result = Pending => aqCalls'[c].result = Null
       /\ aqClosed /\ aqEnqueues' = aqEnqueues + 1 =>
              /\ aqQueue' = aqQueue
              /\ aqCalls' = aqCalls
              /\ aqAccepted' = aqAccepted
       /\ aqClosed /\ Len(aqCalls') = Len(aqCalls) + 1 =>
              LET result == aqCalls'[Len(aqCalls')].result
              IN  IF Len(aqQueue) > 0
                  THEN result = Head(aqQueue) /\ aqQueue' = Tail(aqQueue)
                  ELSE result = Null /\ aqQueue' = aqQueue]_vars

\* two items were enqueued and a third after the close, which was dropped;
\* three dequeue calls returned the first item, the second, and null
C39_Witness ==
    /\ aqClosed
    /\ aqEnqueues = 3
    /\ aqAccepted = {1, 2}
    /\ Len(aqCalls) = 3
    /\ aqCalls[1].result = 1
    /\ aqCalls[2].result = 2
    /\ aqCalls[3].result = Null
    /\ aqReturned = <<1, 2>>

(***************************************************************************)
(* Properties of the database-polling executor                             *)
(***************************************************************************)

\* the number of times the trade id is among the trades of the record agg
Contributions(agg, id) ==
    Cardinality({k \in 1..Len(agg.trades) : agg.trades[k].id = id})

\* C40: with aggregation enabled, an unprocessed BUY below the minimum is in
\* its aggregation record exactly once, however many iterations of the
\* executor's loop pass before the record's window is over: no record holds a
\* trade twice, and a record's total is the sum of the trades it holds, each
\* counted once.
C40_EachBuyContributesOnce ==
    \A i \in 1..Len(executorBuffer) :
        LET agg == executorBuffer[i]
            held == {id \in ExecutorTradeIds : Contributions(agg, id) > 0}
        IN  /\ \A id \in held : Contributions(agg, id) = 1
            /\ agg.totalUsdcSize =
                   SumSeq([id \in ExecutorTradeIds |->
                              IF id \in held THEN ExecutorTrade(id).usdcSize ELSE 0])

\* as C40, after the first iteration that finds the trade
C40_OnceAfterOneIteration ==
    executorPolls <= 1 => C40_EachBuyContributesOnce
====
